---- MODULE Spec2Model ----
(***************************************************************************)
(* clawshield policy engine: the condition validator and evaluator         *)
(* (clawshield/core/condition.py), the policy loader and the evaluation of *)
(* facts (clawshield/core/engine.py), the command line                     *)
(* (clawshield/__main__.py), the docker scanner                            *)
(* (clawshield/scanners/docker.py) and the three collectors of the         *)
(* OpenClaw runtime (clawshield/scanners/openclaw/config.py, secrets.py,   *)
(* permissions.py).                                                        *)
(*                                                                         *)
(* Python values are records [ty, v, items, keys]:                         *)
(*   ty     the Python type name (NoneType, bool, int, str, list, set,     *)
(*          dict);                                                         *)
(*   v      the payload of a scalar, as a string ("" for a container);     *)
(*   items  the elements of a list or set, the values of a dict;           *)
(*   keys   the keys of a dict (all str), aligned with items.              *)
(* A text (a Python str built by an f-string or join) is the sequence of   *)
(* its pieces, so that prefixes and substrings can be told.                *)
(* An outcome of a call that returns a bool is "True", "False" or the name *)
(* of the exception it raised.                                             *)
(***************************************************************************)
EXTENDS Integers, Sequences, FiniteSets, TLC

VARIABLES
    hashSeed,   \* the process's str hash order (PYTHONHASHSEED): orders set displays
    node,       \* the condition handed to validate_condition / evaluate_condition
    facts,      \* the fact map handed to evaluate_condition
    result,     \* outcome of evaluate_condition(node, facts), "pending" before the call
    validation, \* outcome of validate_condition(node)
    policy,     \* the policy file handed to PolicyEngine(policy_path)
    engine,     \* the constructed PolicyEngine (its _rules), or none
    loadError,  \* the exception PolicyEngine.__init__ raised, or none
    calls,      \* the finished calls of engine.evaluate, oldest first: facts and outcome
    callers,    \* the callers running engine.evaluate at the same time, with their locals
    cli,        \* one run of main(): its arguments, position, output and exit code
    host,       \* what the run finds on the machine: the files and what docker answers
    scan        \* the collectors at work: position, facts and warnings so far

vars == <<hashSeed, node, facts, result, validation, policy, engine, loadError,
          calls, callers, cli, host, scan>>

---------------------------------------------------------------------------
(* Bounds *)

\* most children of one combinator node
MaxChildren == 2
\* most rules of one policy document
MaxRules == 2
\* most facts handed to one call of evaluate
MaxFacts == 2
\* most calls of evaluate made one after the other on one engine
MaxCalls == 3
\* most containers docker inspect reports
MaxContainers == 6

---------------------------------------------------------------------------
(* Python values *)

PyNone == [ty |-> "NoneType", v |-> "None", items |-> <<>>, keys |-> <<>>]
PyBool(b) == [ty |-> "bool", v |-> IF b THEN "True" ELSE "False", items |-> <<>>, keys |-> <<>>]
PyInt(s) == [ty |-> "int", v |-> s, items |-> <<>>, keys |-> <<>>]
PyStr(s) == [ty |-> "str", v |-> s, items |-> <<>>, keys |-> <<>>]
PyList(xs) == [ty |-> "list", v |-> "", items |-> xs, keys |-> <<>>]
PySet(xs) == [ty |-> "set", v |-> "", items |-> xs, keys |-> <<>>]
PyDict(ks, xs) == [ty |-> "dict", v |-> "", items |-> xs, keys |-> ks]

Range(s) == {s[i] : i \in 1..Len(s)}

\* isinstance(x, dict), isinstance(x, list), isinstance(x, (list, tuple, set))
IsDict(x) == x.ty = "dict"
IsList(x) == x.ty = "list"
IsListTupleSet(x) == x.ty \in {"list", "tuple", "set"}

\* hash(x) succeeds: lists, sets and dicts are unhashable
Hashable(x) == x.ty \notin {"list", "set", "dict"}

\* key in d, for a dict d and a str key
HasKey(d, k) == k \in Range(d.keys)

\* d[key], for a key of d
Item(d, k) == d.items[CHOOSE i \in 1..Len(d.keys) : d.keys[i] = k]

\* type(x).__name__
TypeName(x) == x.ty

\* The value a bool or int compares by: True == 1 and False == 0 in Python.
NumStr(x) == IF x.ty = "bool" THEN (IF x.v = "True" THEN "1" ELSE "0") ELSE x.v

RECURSIVE PyEq(_, _)
\* a == b on built-in values
PyEq(a, b) ==
    CASE a.ty \in {"bool", "int"} /\ b.ty \in {"bool", "int"} -> NumStr(a) = NumStr(b)
      [] a.ty # b.ty -> FALSE
      [] a.ty \in {"NoneType", "str"} -> a.v = b.v
      [] a.ty \in {"list", "tuple"} ->
            /\ Len(a.items) = Len(b.items)
            /\ \A i \in 1..Len(a.items) : PyEq(a.items[i], b.items[i])
      [] a.ty = "set" ->
            /\ \A i \in 1..Len(a.items) : \E j \in 1..Len(b.items) : PyEq(a.items[i], b.items[j])
            /\ \A j \in 1..Len(b.items) : \E i \in 1..Len(a.items) : PyEq(a.items[i], b.items[j])
      [] a.ty = "dict" ->
            /\ Range(a.keys) = Range(b.keys)
            /\ \A k \in Range(a.keys) : PyEq(Item(a, k), Item(b, k))
      [] OTHER -> FALSE

\* The strings of the model that are searched or iterated have at most one
\* character: a in b for two of them, and the characters of one.
IsSubstring(a, b) == a = "" \/ a = b
StrChars(s) == IF s = "" THEN <<>> ELSE <<PyStr(s)>>

\* x in c: "True", "False", or the exception raised
PyContains(x, c) ==
    CASE c.ty \in {"list", "tuple"} ->
            IF \E i \in 1..Len(c.items) : PyEq(c.items[i], x) THEN "True" ELSE "False"
      [] c.ty = "set" ->
            IF ~Hashable(x) THEN "TypeError"
            ELSE IF \E i \in 1..Len(c.items) : PyEq(c.items[i], x) THEN "True" ELSE "False"
      [] c.ty = "dict" ->
            IF ~Hashable(x) THEN "TypeError"
            ELSE IF x.ty = "str" /\ HasKey(c, x.v) THEN "True" ELSE "False"
      [] c.ty = "str" ->
            IF x.ty # "str" THEN "TypeError"
            ELSE IF IsSubstring(x.v, c.v) THEN "True" ELSE "False"
      [] OTHER -> "TypeError"

\* "key" in x for a str literal key: the membership test of the node walks
KeyIn(k, x) == PyContains(PyStr(k), x)

\* iter(c) succeeds; Elements(c) is the sequence a for loop or all()/any() walks
Iterable(c) == c.ty \in {"list", "tuple", "set", "dict", "str"}
Elements(c) ==
    CASE c.ty \in {"list", "tuple", "set"} -> c.items
      [] c.ty = "dict" -> [i \in 1..Len(c.keys) |-> PyStr(c.keys[i])]
      [] c.ty = "str" -> StrChars(c.v)
      [] OTHER -> <<>>

RECURSIVE Repr(_)
RECURSIVE ReprSeq(_, _)
\* repr(x), the display of a value inside a container or an f-string
Repr(x) ==
    CASE x.ty = "str" -> "'" \o x.v \o "'"
      [] x.ty = "list" -> "[" \o ReprSeq(x.items, 1) \o "]"
      [] x.ty = "set" -> IF x.items = <<>> THEN "set()" ELSE "{" \o ReprSeq(x.items, 1) \o "}"
      [] x.ty = "dict" -> "{" \o ReprSeq([i \in 1..Len(x.keys) |-> PyStr(x.keys[i])], 1) \o "}"
      [] OTHER -> x.v
ReprSeq(xs, i) ==
    IF i > Len(xs) THEN ""
    ELSE Repr(xs[i]) \o (IF i < Len(xs) THEN ", " ELSE "") \o ReprSeq(xs, i + 1)

\* str(x), what an f-string interpolates
Str(x) == IF x.ty = "str" THEN x.v ELSE Repr(x)

---------------------------------------------------------------------------
(* clawshield/core/condition.py *)

\* _VALID_OPS = {"eq", "in"}
_VALID_OPS == {"eq", "in"}

\* f"{_VALID_OPS}": a set displays in hash order
ValidOpsRepr == IF hashSeed = 0 THEN "{'eq', 'in'}" ELSE "{'in', 'eq'}"

\* x not in _VALID_OPS: hashes x, so an unhashable x raises TypeError
NotInValidOps(x) ==
    IF ~Hashable(x) THEN "TypeError"
    ELSE IF x.ty = "str" /\ x.v \in _VALID_OPS THEN "False" ELSE "True"

\* condition[key]: [exc |-> "", val |-> the item], or the exception raised
\* (a dict without the key: KeyError; a value that is no dict: TypeError)
Subscript(condition, k) ==
    IF ~IsDict(condition) THEN [exc |-> "TypeError", val |-> PyNone]
    ELSE IF ~HasKey(condition, k) THEN [exc |-> "KeyError", val |-> PyNone]
    ELSE [exc |-> "", val |-> Item(condition, k)]

\* fact_key in facts, for a fact map whose keys are str
InFacts(fact_key, fmap) == fact_key.ty = "str" /\ fact_key.v \in DOMAIN fmap

\* facts.get(fact_key), for a hashable fact_key
FactsGet(fact_key, fmap) == IF InFacts(fact_key, fmap) THEN fmap[fact_key.v] ELSE PyNone

\* Mutant of MissingFact: the missing-fact guard left out
MissingFactNever(actual, fact_key, fmap) == FALSE

\* Mutant of MissingFact: "if actual is None", which takes a null for missing
MissingFactWhenNone(actual, fact_key, fmap) == actual.ty = "NoneType"

\* actual is None and fact_key not in facts
MissingFact(actual, fact_key, fmap) == actual.ty = "NoneType" /\ ~InFacts(fact_key, fmap)

RECURSIVE evaluate_condition(_, _)
RECURSIVE PyAll(_, _, _)
RECURSIVE PyAny(_, _, _)

\* Mutant of PyAll: any() where all() is meant
PyAllAsAny(children, i, fmap) == PyAny(children, i, fmap)

\* all(evaluate_condition(c, facts) for c in children), from child i on:
\* stops at the first child that is not true, an exception passes through
PyAll(children, i, fmap) ==
    IF i > Len(children) THEN "True"
    ELSE LET r == evaluate_condition(children[i], fmap)
         IN  IF r = "True" THEN PyAll(children, i + 1, fmap) ELSE r

\* Mutant of PyAny: all() where any() is meant
PyAnyAsAll(children, i, fmap) == PyAll(children, i, fmap)

\* any(evaluate_condition(c, facts) for c in children), from child i on:
\* stops at the first child that is not false, an exception passes through
PyAny(children, i, fmap) ==
    IF i > Len(children) THEN "False"
    ELSE LET r == evaluate_condition(children[i], fmap)
         IN  IF r = "False" THEN PyAny(children, i + 1, fmap) ELSE r

\* Mutant of Compare: an operator that is not known matches nothing
CompareUnknownIsFalse(op, actual, expected) ==
    IF PyEq(op, PyStr("eq")) THEN (IF PyEq(actual, expected) THEN "True" ELSE "False")
    ELSE IF PyEq(op, PyStr("in")) THEN PyContains(actual, expected)
    ELSE "False"

\* Lines 70-75: the comparison by operator, ValueError for any other operator
Compare(op, actual, expected) ==
    IF PyEq(op, PyStr("eq")) THEN (IF PyEq(actual, expected) THEN "True" ELSE "False")
    ELSE IF PyEq(op, PyStr("in")) THEN PyContains(actual, expected)
    ELSE "ValueError"

\* The leaf part of evaluate_condition (condition.py lines 61-75)
EvaluateLeaf(condition, fmap) ==
    LET fact_key == Subscript(condition, "fact")
        op       == Subscript(condition, "op")
        expected == Subscript(condition, "value")
    IN  IF fact_key.exc # "" THEN fact_key.exc
        ELSE IF op.exc # "" THEN op.exc
        ELSE IF expected.exc # "" THEN expected.exc
        \* facts.get(fact_key) hashes the key
        ELSE IF ~Hashable(fact_key.val) THEN "TypeError"
        ELSE LET actual == FactsGet(fact_key.val, fmap)
             IN  IF MissingFact(actual, fact_key.val, fmap) THEN "False"
                 ELSE Compare(op.val, actual, expected.val)

\* evaluate_condition(condition, facts)
evaluate_condition(condition, fmap) ==
    LET hasAll == KeyIn("all", condition)
        hasAny == KeyIn("any", condition)
    IN  IF hasAll = "TypeError" THEN "TypeError"
        ELSE IF hasAll = "True" THEN
            LET children == Subscript(condition, "all")
            IN  IF children.exc # "" THEN children.exc
                ELSE IF ~Iterable(children.val) THEN "TypeError"
                ELSE PyAll(Elements(children.val), 1, fmap)
        ELSE IF hasAny = "True" THEN
            LET children == Subscript(condition, "any")
            IN  IF children.exc # "" THEN children.exc
                ELSE IF ~Iterable(children.val) THEN "TypeError"
                ELSE PyAny(Elements(children.val), 1, fmap)
        ELSE EvaluateLeaf(condition, fmap)

\* errors.append(text)
Append1(state, text) == [state EXCEPT !.errors = Append(@, text)]

\* The leaf part of _validate_node (condition.py lines 39-48); state is the
\* errors list and the exception raised so far
ValidateLeaf(n, state, path) ==
    LET missing(s, key) ==
            IF HasKey(n, key) THEN s
            ELSE Append1(s, path \o <<": missing required key '", key, "'">>)
        s3 == missing(missing(missing(state, "fact"), "op"), "value")
        op == IF HasKey(n, "op") THEN Item(n, "op") ELSE PyNone
        unknown == IF HasKey(n, "op") THEN NotInValidOps(op) ELSE "False"
    IN  IF unknown = "TypeError" THEN [s3 EXCEPT !.raised = "TypeError"]
        ELSE
        LET s4 == IF unknown = "True"
                  THEN Append1(s3, path \o <<": unknown operator '", Str(op),
                                             "' (valid: ", ValidOpsRepr, ")">>)
                  ELSE s3
            \* val = node.get("value")
            val == IF HasKey(n, "value") THEN Item(n, "value") ELSE PyNone
        IN  IF HasKey(n, "op") /\ PyEq(op, PyStr("in"))
               /\ val.ty # "NoneType" /\ ~IsListTupleSet(val)
            THEN Append1(s4, path \o <<": 'in' operator requires a list value, got ",
                                       TypeName(val)>>)
            ELSE s4

RECURSIVE _validate_node(_, _, _)
RECURSIVE ValidateChildren(_, _, _, _, _)

\* Mutant of ChildPath: children numbered from 1
ChildPathOneBased(path, label, j) == path \o <<"." \o label \o "[", ToString(j), "]">>

\* f"{path}.all[{i}]", f"{path}.any[{i}]" for the child at position j = i + 1
ChildPath(path, label, j) == path \o <<"." \o label \o "[", ToString(j - 1), "]">>

\* for i, child in enumerate(children): _validate_node(child, errors,
\* path=f"{path}.{label}[{i}]"), from the child at position j = i + 1 on
ValidateChildren(children, j, state, path, label) ==
    IF j > Len(children) \/ state.raised # "" THEN state
    ELSE ValidateChildren(children, j + 1,
            _validate_node(children[j], state, ChildPath(path, label, j)),
            path, label)

\* _validate_node(node, errors, path)
_validate_node(n, state, path) ==
    IF ~IsDict(n)
    THEN Append1(state, path \o <<": expected dict, got ", TypeName(n)>>)
    ELSE IF HasKey(n, "all") THEN
        LET children == Item(n, "all")
        IN  IF ~IsList(children)
            THEN Append1(state, path \o <<".all", ": expected list, got ", TypeName(children)>>)
            ELSE ValidateChildren(children.items, 1, state, path, "all")
    ELSE IF HasKey(n, "any") THEN
        LET children == Item(n, "any")
        IN  IF ~IsList(children)
            THEN Append1(state, path \o <<".any", ": expected list, got ", TypeName(children)>>)
            ELSE ValidateChildren(children.items, 1, state, path, "any")
    ELSE ValidateLeaf(n, state, path)

\* validate_condition(condition): the errors list it returns, or the exception
\* it raised (the list is local to the call and lost with it)
validate_condition(condition) ==
    LET state == _validate_node(condition, [errors |-> <<>>, raised |-> ""], <<"condition">>)
    IN  IF state.raised # "" THEN [errors |-> <<>>, raised |-> state.raised] ELSE state

---------------------------------------------------------------------------
(* clawshield/core/engine.py: loading a policy *)

\* _REQUIRED_RULE_KEYS = {"id", "title", "severity", "confidence", "condition"}
_REQUIRED_RULE_KEYS == {"id", "title", "severity", "confidence", "condition"}

\* f"{missing}": the display of a set of str keys, in hash order
KeyOrder ==
    IF hashSeed = 0 THEN <<"id", "title", "severity", "confidence", "condition">>
    ELSE <<"condition", "confidence", "severity", "title", "id">>
RECURSIVE KeySetRepr(_, _)
KeySetRepr(S, i) ==
    IF i > Len(KeyOrder) THEN <<>>
    ELSE (IF KeyOrder[i] \in S
          THEN <<"'" \o KeyOrder[i] \o "'">>
                  \o (IF \E j \in (i + 1)..Len(KeyOrder) : KeyOrder[j] \in S THEN <<", ">> ELSE <<>>)
          ELSE <<>>) \o KeySetRepr(S, i + 1)
SetRepr(S) == <<"{">> \o KeySetRepr(S, 1) \o <<"}">>

\* f"rules[{i}] (id={rule.get('id', '?')})"
RuleLabel(i, rule) ==
    <<"rules[", ToString(i), "]", " (id=",
      IF HasKey(rule, "id") THEN Str(Item(rule, "id")) ELSE "?", ")">>

\* for err in cond_errors: errors.append(f"rules[{i}] (id=...): {err}")
RECURSIVE AppendEach(_, _, _, _)
AppendEach(state, label, cond_errors, k) ==
    IF k > Len(cond_errors) THEN state
    ELSE AppendEach(Append1(state, label \o <<": ">> \o cond_errors[k]), label, cond_errors, k + 1)

\* One turn of the loop of _validate_rules, for the rule at index i
ValidateRule(state, i, rule) ==
    IF ~IsDict(rule)
    THEN Append1(state, <<"rules[", ToString(i), "]", ": expected dict, got ", TypeName(rule)>>)
    ELSE
    LET missing == _REQUIRED_RULE_KEYS \ Range(rule.keys)
        s1 == IF missing # {}
              THEN Append1(state, RuleLabel(i, rule) \o <<": missing keys: ">> \o SetRepr(missing))
              ELSE state
    IN  IF ~HasKey(rule, "condition") THEN s1
        ELSE LET cond == validate_condition(Item(rule, "condition"))
             IN  IF cond.raised # "" THEN [s1 EXCEPT !.raised = cond.raised]
                 ELSE AppendEach(s1, RuleLabel(i, rule), cond.errors, 1)

RECURSIVE ValidateRulesFrom(_, _, _)
ValidateRulesFrom(rules, j, state) ==
    IF j > Len(rules) \/ state.raised # "" THEN state
    ELSE ValidateRulesFrom(rules, j + 1, ValidateRule(state, j - 1, rules[j]))

\* _validate_rules(rules): the errors list it returns, or the exception raised
_validate_rules(rules) ==
    LET state == ValidateRulesFrom(rules, 1, [errors |-> <<>>, raised |-> ""])
    IN  IF state.raised # "" THEN [errors |-> <<>>, raised |-> state.raised] ELSE state

RECURSIVE Join(_, _, _)
\* sep.join(texts), from text k on
Join(sep, texts, k) ==
    IF k > Len(texts) THEN <<>>
    ELSE texts[k] \o (IF k < Len(texts) THEN <<sep>> ELSE <<>>) \o Join(sep, texts, k + 1)

policy_path == "policy.yaml"
NoError == [type |-> "", message |-> <<>>]
NoEngine == [loaded |-> FALSE, _rules |-> <<>>]
PolicyLoadError(message) == [type |-> "PolicyLoadError", message |-> message]

\* PolicyEngine.__init__(policy_path) on a policy file: the engine and the
\* exception raised
PolicyEngineInit(file) ==
    LET failed(error) == [engine |-> NoEngine, error |-> error]
        document == file.document
    IN  \* open(policy_path), yaml.safe_load(f)
        IF file.file = "missing" THEN failed([type |-> "FileNotFoundError", message |-> <<>>])
        ELSE IF file.file = "unparsable" THEN failed([type |-> "YAMLError", message |-> <<>>])
        ELSE IF ~IsDict(document)
            THEN failed(PolicyLoadError(<<policy_path, ": expected a YAML mapping at top level">>))
        ELSE
        LET rules == IF HasKey(document, "rules") THEN Item(document, "rules") ELSE PyList(<<>>)
        IN  IF ~IsList(rules)
            THEN failed(PolicyLoadError(<<policy_path, ": 'rules' must be a list">>))
            ELSE
            LET checked == _validate_rules(rules.items)
            IN  IF checked.raised # "" THEN failed([type |-> checked.raised, message |-> <<>>])
                ELSE IF checked.errors # <<>>
                THEN failed(PolicyLoadError(<<policy_path, ": policy validation failed:\n  ">>
                                            \o Join("\n  ", checked.errors, 1)))
                ELSE [engine |-> [loaded |-> TRUE, _rules |-> rules.items], error |-> NoError]

---------------------------------------------------------------------------
(* clawshield/core/models.py, clawshield/core/engine.py: evaluating facts *)

\* Fact(key=key, value=value, source=source): key and source are str
Fact(key, value, source) == [key |-> key, value |-> value, source |-> source]

\* EvalResult(findings=findings, warnings=warnings), as evaluate returns it
EvalResult(findings, warnings) == [findings |-> findings, warnings |-> warnings, raised |-> ""]

\* evaluate left by an exception: nothing is returned
EvalRaised(exc) == [findings |-> <<>>, warnings |-> <<>>, raised |-> exc]

\* sources.setdefault(key, []).append(source); the dict is the sequence of its
\* entries [key, sources] in insertion order
SetDefaultAppend(sources, key, source) ==
    IF \E i \in 1..Len(sources) : sources[i].key = key
    THEN [i \in 1..Len(sources) |->
            IF sources[i].key = key
            THEN [sources[i] EXCEPT !.sources = Append(@, source)]
            ELSE sources[i]]
    ELSE Append(sources, [key |-> key, sources |-> <<source>>])

\* Mutant of SetItem: the first value of a key is kept
SetItemKeepFirst(fact_map, key, value) ==
    [k \in DOMAIN fact_map \cup {key} |-> IF k \in DOMAIN fact_map THEN fact_map[k] ELSE value]

\* fact_map[key] = value
SetItem(fact_map, key, value) ==
    [k \in DOMAIN fact_map \cup {key} |-> IF k = key THEN value ELSE fact_map[k]]

\* for f in facts: ..., from the fact at position i on
RECURSIVE BuildFactMapFrom(_, _, _, _)
BuildFactMapFrom(fs, i, fact_map, sources) ==
    IF i > Len(fs) THEN [fact_map |-> fact_map, sources |-> sources]
    ELSE BuildFactMapFrom(fs, i + 1,
                          SetItem(fact_map, fs[i].key, fs[i].value),
                          SetDefaultAppend(sources, fs[i].key, fs[i].source))

\* Mutant of IsCollision: a key counts only when two different sources gave it
IsCollisionOfSources(entry) == Cardinality(Range(entry.sources)) > 1

\* len(v) > 1 for an entry k, v of sources
IsCollision(entry) == Len(entry.sources) > 1

\* _build_fact_map(facts): the pair (fact_map, collisions)
_build_fact_map(fs) ==
    LET built == BuildFactMapFrom(fs, 1, <<>>, <<>>)
    IN  [fact_map |-> built.fact_map,
         collisions |-> SelectSeq(built.sources, IsCollision)]

\* f"fact '{key}' collected {len(sources)} times (sources: {', '.join(sources)}),
\* using last value"
CollisionWarning(key, sources) ==
    <<"fact '", key, "' collected ", ToString(Len(sources)), " times ", "(sources: ">>
    \o Join(", ", [i \in 1..Len(sources) |-> <<sources[i]>>], 1)
    \o <<"), using last value">>

\* for key, sources in collisions.items(): warnings.append(...)
CollisionWarnings(collisions) ==
    [i \in 1..Len(collisions) |-> CollisionWarning(collisions[i].key, collisions[i].sources)]

RECURSIVE _extract_fact_keys(_)
RECURSIVE ExtractFromChildren(_, _, _)

\* for c in children: keys |= _extract_fact_keys(c), from child i on
ExtractFromChildren(children, i, keys) ==
    IF i > Len(children) THEN [keys |-> keys, exc |-> ""]
    ELSE LET sub == _extract_fact_keys(children[i])
         IN  IF sub.exc # "" THEN sub
             ELSE ExtractFromChildren(children, i + 1, keys \cup sub.keys)

\* _extract_fact_keys(condition): the set of keys, or the exception raised
_extract_fact_keys(condition) ==
    LET failed(exc) == [keys |-> {}, exc |-> exc]
        hasAll == KeyIn("all", condition)
        hasAny == KeyIn("any", condition)
        hasFact == KeyIn("fact", condition)
        walk(label) ==
            LET children == Subscript(condition, label)
            IN  IF children.exc # "" THEN failed(children.exc)
                ELSE IF ~Iterable(children.val) THEN failed("TypeError")
                ELSE ExtractFromChildren(Elements(children.val), 1, {})
    IN  IF hasAll = "TypeError" THEN failed("TypeError")
        ELSE IF hasAll = "True" THEN walk("all")
        ELSE IF hasAny = "True" THEN walk("any")
        ELSE IF hasFact = "True" THEN
            LET fact_key == Subscript(condition, "fact")
            IN  IF fact_key.exc # "" THEN failed(fact_key.exc)
                \* keys.add hashes the key
                ELSE IF ~Hashable(fact_key.val) THEN failed("TypeError")
                ELSE [keys |-> {fact_key.val}, exc |-> ""]
        ELSE [keys |-> {}, exc |-> ""]

\* f.key in fact_keys
KeyInFactKeys(key, fact_keys) == \E k \in fact_keys : PyEq(k, PyStr(key))

\* Mutant of Triggered: one fact per key, the one whose value the map holds
TriggeredLastOnly(fs, fact_keys) ==
    LET kept == {i \in 1..Len(fs) :
                    /\ KeyInFactKeys(fs[i].key, fact_keys)
                    /\ \A j \in (i + 1)..Len(fs) : fs[j].key # fs[i].key}
    IN  [k \in 1..Cardinality(kept) |->
            fs[CHOOSE i \in kept : Cardinality({j \in kept : j <= i}) = k]]

\* [f for f in facts if f.key in fact_keys]
Triggered(fs, fact_keys) == SelectSeq(fs, LAMBDA f : KeyInFactKeys(f.key, fact_keys))

\* d.get(key, default) on a value d: AttributeError unless d is a dict
DictGet(d, key, default) ==
    IF ~IsDict(d) THEN [exc |-> "AttributeError", val |-> PyNone]
    ELSE [exc |-> "", val |-> IF HasKey(d, key) THEN Item(d, key) ELSE default]

RECURSIVE ActionIds(_, _, _)

\* Mutant of ActionIds: each id is put in front of the ids before it
ActionIdsPrepending(entries, i, ids) ==
    IF i > Len(entries) THEN [exc |-> "", ids |-> ids]
    ELSE LET id == Subscript(entries[i], "id")
         IN  IF id.exc # "" THEN [exc |-> id.exc, ids |-> <<>>]
             ELSE ActionIds(entries, i + 1, <<id.val>> \o ids)

\* [a["id"] for a in recommended], from entry i on
ActionIds(entries, i, ids) ==
    IF i > Len(entries) THEN [exc |-> "", ids |-> ids]
    ELSE LET id == Subscript(entries[i], "id")
         IN  IF id.exc # "" THEN [exc |-> id.exc, ids |-> <<>>]
             ELSE ActionIds(entries, i + 1, Append(ids, id.val))

\* len(x): the number of items, or TypeError for a value without a length
Sized(x) == x.ty \in {"list", "tuple", "set", "dict", "str"}
PyLen(x) == Len(Elements(x))

\* Finding(rule_id=rule["id"], title=rule["title"], ...)
Finding(rule, evidence, recommended, has_autofix) ==
    [rule_id |-> Item(rule, "id"), title |-> Item(rule, "title"),
     severity |-> Item(rule, "severity"), confidence |-> Item(rule, "confidence"),
     evidence |-> evidence, recommended_actions |-> recommended,
     autofix_available |-> has_autofix]

\* Mutant of AppendFinding: the finding is put in front
InsertFinding(findings, finding) == <<finding>> \o findings

\* findings.append(finding)
AppendFinding(findings, finding) == Append(findings, finding)

\* Mutant of Fires: a rule fires unless its condition is true
FiresUnlessTrue(outcome) == outcome = "False"

\* if evaluate_condition(rule["condition"], fact_map): the returned bool
Fires(outcome) == outcome = "True"

\* One turn of the loop of evaluate (lines 58-75) for one rule: the findings
\* list afterwards, or the exception raised
EvaluateRule(rule, fs, fact_map, findings) ==
    LET failed(exc) == [findings |-> findings, raised |-> exc]
        fact_keys == _extract_fact_keys(Item(rule, "condition"))
    IN  IF fact_keys.exc # "" THEN failed(fact_keys.exc)
        ELSE
        LET outcome == evaluate_condition(Item(rule, "condition"), fact_map)
        IN  IF outcome \notin {"True", "False"} THEN failed(outcome)
            ELSE IF ~Fires(outcome) THEN [findings |-> findings, raised |-> ""]
            ELSE
            LET actions == IF HasKey(rule, "actions") THEN Item(rule, "actions")
                           ELSE PyDict(<<>>, <<>>)
                entries == DictGet(actions, "recommended", PyList(<<>>))
                fixes == DictGet(actions, "autofix", PyList(<<>>))
            IN  IF entries.exc # "" THEN failed(entries.exc)
                ELSE IF ~Iterable(entries.val) THEN failed("TypeError")
                ELSE
                LET recommended == ActionIds(Elements(entries.val), 1, <<>>)
                IN  IF recommended.exc # "" THEN failed(recommended.exc)
                    ELSE IF ~Sized(fixes.val) THEN failed("TypeError")
                    ELSE [findings |->
                            AppendFinding(findings,
                                Finding(rule, Triggered(fs, fact_keys.keys),
                                        recommended.ids, PyLen(fixes.val) > 0)),
                          raised |-> ""]

\* for rule in self._rules: ..., from the rule at position i on
RECURSIVE EvaluateRulesFrom(_, _, _, _, _)
EvaluateRulesFrom(rules, i, fs, fact_map, findings) ==
    IF i > Len(rules) THEN [findings |-> findings, raised |-> ""]
    ELSE LET turn == EvaluateRule(rules[i], fs, fact_map, findings)
         IN  IF turn.raised # "" THEN turn
             ELSE EvaluateRulesFrom(rules, i + 1, fs, fact_map, turn.findings)

\* PolicyEngine.evaluate(facts) on the rules of a loaded engine
evaluate(rules, fs) ==
    LET correlated == _build_fact_map(fs)
        warnings == CollisionWarnings(correlated.collisions)
        walked == EvaluateRulesFrom(rules, 1, fs, correlated.fact_map, <<>>)
    IN  IF walked.raised # "" THEN EvalRaised(walked.raised)
        ELSE EvalResult(walked.findings, warnings)

---------------------------------------------------------------------------
(* clawshield/__main__.py *)

\* _SEVERITY_RANK = {"low": 0, "medium": 1, "high": 2, "critical": 3}
_SEVERITY_RANK == [low |-> 0, medium |-> 1, high |-> 2, critical |-> 3]

\* _SEVERITY_RANK.get(severity, 0), for a hashable severity
RankOf(severity) ==
    IF severity.ty = "str" /\ severity.v \in DOMAIN _SEVERITY_RANK
    THEN _SEVERITY_RANK[severity.v] ELSE 0

\* any(_SEVERITY_RANK.get(f.severity, 0) >= threshold for f in findings), from
\* finding k on: "True", "False", or TypeError for an unhashable severity
RECURSIVE AnyAtOrAbove(_, _, _)
AnyAtOrAbove(findings, k, threshold) ==
    IF k > Len(findings) THEN "False"
    ELSE IF ~Hashable(findings[k].severity) THEN "TypeError"
    ELSE IF RankOf(findings[k].severity) >= threshold THEN "True"
    ELSE AnyAtOrAbove(findings, k + 1, threshold)

\* severity.upper() for the str severities of the rules
Upper(text) ==
    CASE text = "low" -> "LOW"
      [] text = "medium" -> "MEDIUM"
      [] text = "high" -> "HIGH"
      [] text = "critical" -> "CRITICAL"
      [] text = "urgent" -> "URGENT"
      [] OTHER -> text

\* The lines main prints for one finding (lines 112-119), or the exception
FindingLines(finding) ==
    LET evidence == [i \in 1..Len(finding.evidence) |->
                        <<"  - ", finding.evidence[i].key, " = ",
                          Str(finding.evidence[i].value), "  (",
                          finding.evidence[i].source, ")">>]
        ids == finding.recommended_actions
    IN  IF finding.severity.ty # "str" THEN [exc |-> "AttributeError", lines |-> <<>>]
        ELSE IF \E i \in 1..Len(ids) : ids[i].ty # "str" THEN [exc |-> "TypeError", lines |-> <<>>]
        ELSE [exc |-> "",
              lines |-> <<<<"[", Upper(finding.severity.v), "] ", Str(finding.rule_id), ": ",
                           Str(finding.title)>>>>
                        \o evidence
                        \o (IF Len(ids) > 0
                            THEN <<<<"  recommended: ">>
                                   \o Join(", ", [i \in 1..Len(ids) |-> <<ids[i].v>>], 1)>>
                            ELSE <<>>)
                        \o (IF finding.autofix_available THEN <<<<"  autofix: available">>>> ELSE <<>>)
                        \o <<<<>>>>]

\* for finding in findings: print(...), from finding k on
RECURSIVE AllFindingLines(_, _, _)
AllFindingLines(findings, k, lines) ==
    IF k > Len(findings) THEN [exc |-> "", lines |-> lines]
    ELSE LET printed == FindingLines(findings[k])
         IN  IF printed.exc # "" THEN [exc |-> printed.exc, lines |-> lines]
             ELSE AllFindingLines(findings, k + 1, lines \o printed.lines)

\* The JSON document of lines 74-82 and 99-106; warnings is empty when meta has
\* no "warnings" key
tool_version == "tool_version"
JsonDocument(warnings, fs, findings) ==
    [printed |-> TRUE,
     meta |-> [schema_version |-> "0.1", tool_version |-> tool_version,
               policy_path |-> policy_path, warnings |-> warnings],
     facts |-> fs, findings |-> findings]
NoDocument ==
    [printed |-> FALSE,
     meta |-> [schema_version |-> "", tool_version |-> "", policy_path |-> "", warnings |-> <<>>],
     facts |-> <<>>, findings |-> <<>>]

\* Lines 29-35: args.fail_on is the level given with --fail-on, critical
\* without the option ("" stands for a command line without it)
FailOn(given) == IF given = "" THEN "critical" ELSE given

\* One run of main(): the parsed arguments, whether the adapter finds a
\* configuration, what has been printed, and how the run ended: "exit" is the
\* returned code, "raised" the exception that left main unhandled
Run(detected, json_output, given) ==
    [pc |-> "detect", detected |-> detected, json_output |-> json_output,
     given |-> given, fail_on |-> FailOn(given),
     facts |-> <<>>, warnings |-> <<>>, findings |-> <<>>,
     stdout |-> <<>>, json |-> NoDocument, stderr |-> <<>>,
     exit |-> "", raised |-> ""]

\* return code
Exit(run, code) == [run EXCEPT !.pc = "exit", !.exit = code]

\* An exception leaves main: no code is returned
Unhandled(run, exc) == [run EXCEPT !.pc = "exit", !.raised = exc]

---------------------------------------------------------------------------
(* clawshield/scanners/docker.py *)
(* The strings docker prints (ids, names, users) are sequences of characters, *)
(* so that slices, strips and splits are computed on them.                    *)

\* A str of docker's output, from its characters
Text(chars) == [ty |-> "str", v |-> chars, items |-> <<>>, keys |-> <<>>]

\* bool(x) for None, a bool and a str of docker's output
Truthy(x) ==
    CASE x.ty = "NoneType" -> FALSE
      [] x.ty = "bool" -> x.v = "True"
      [] x.ty = "str" -> x.v # <<>>
      [] OTHER -> TRUE

\* d.get(key, default) on a dict
Get(d, key, default) == IF HasKey(d, key) THEN Item(d, key) ELSE default

\* chars[:n]
Slice(chars, n) == SubSeq(chars, 1, IF Len(chars) < n THEN Len(chars) ELSE n)

\* chars.lstrip(c): every leading c is dropped
RECURSIVE LStrip(_, _)
LStrip(chars, c) ==
    IF chars # <<>> /\ chars[1] = c THEN LStrip(Tail(chars), c) ELSE chars

\* chars.split(sep)[0]: the characters before the first sep
RECURSIVE SplitFirst(_, _)
SplitFirst(chars, sep) ==
    IF chars = <<>> \/ chars[1] = sep THEN <<>>
    ELSE <<chars[1]>> \o SplitFirst(Tail(chars), sep)

\* _SOURCE_NAME_LIMIT = 5
_SOURCE_NAME_LIMIT == 5

\* _cap_names(names)
_cap_names(names) ==
    IF Len(names) <= _SOURCE_NAME_LIMIT THEN Join(",", names, 1)
    ELSE Join(",", SubSeq(names, 1, _SOURCE_NAME_LIMIT), 1)
            \o <<" (+", ToString(Len(names) - _SOURCE_NAME_LIMIT), " more)">>

\* Lines 53-55: the name a container goes by
ContainerName(container) ==
    LET id == Get(container, "Id", PyNone)
        cid == IF Truthy(id) THEN id.v ELSE <<"u", "n", "k", "n", "o", "w", "n">>
        given == Get(container, "Name", PyNone)
        name == IF Truthy(given) THEN given.v ELSE Slice(cid, 12)
    IN  LStrip(name, "/")

\* Mutant of RunsAsRoot: a user given by name only, a UID 0 is not looked for
RunsAsRootByNameOnly(container) ==
    LET user == Get(Get(container, "Config", PyDict(<<>>, <<>>)), "User", Text(<<>>))
    IN  \/ ~Truthy(user)
        \/ user.v = <<"r", "o", "o", "t">>

\* Lines 58, 62: not user or user == "root" or user.split(":")[0] == "0"
RunsAsRoot(container) ==
    LET user == Get(Get(container, "Config", PyDict(<<>>, <<>>)), "User", Text(<<>>))
    IN  \/ ~Truthy(user)
        \/ user.v = <<"r", "o", "o", "t">>
        \/ SplitFirst(user.v, ":") = <<"0">>

\* Lines 59, 65: the truth of HostConfig.Privileged
IsPrivileged(container) ==
    Truthy(Get(Get(container, "HostConfig", PyDict(<<>>, <<>>)), "Privileged", PyBool(FALSE)))

\* The names of the containers of the list that satisfy the test, in order
NamesWhere(containers, test) ==
    LET Chosen(c) == CASE test = "root" -> RunsAsRoot(c)
                       [] test = "privileged" -> IsPrivileged(c)
                       [] OTHER -> TRUE
        chosen == SelectSeq(containers, Chosen)
    IN  [i \in 1..Len(chosen) |-> ContainerName(chosen[i])]

\* parse_inspect_output(containers)
parse_inspect_output(containers) ==
    IF containers = <<>> THEN <<>>
    ELSE
    LET all_names == NamesWhere(containers, "all")
        root_names == NamesWhere(containers, "root")
        privileged_names == NamesWhere(containers, "privileged")
        is_root == root_names # <<>>
        is_privileged == privileged_names # <<>>
    IN  <<Fact("docker.user",
               IF is_root THEN PyStr("root") ELSE PyStr("non-root"),
               <<"docker_inspect:">> \o _cap_names(IF is_root THEN root_names ELSE all_names)),
          Fact("docker.privileged",
               PyBool(is_privileged),
               <<"docker_inspect:">>
                   \o _cap_names(IF is_privileged THEN privileged_names ELSE all_names))>>

\* What subprocess.run gives: a finished process (return code, the lines of
\* stdout, the stripped text of stderr) or the exception it raised
Finished(returncode, stdout, stderr) ==
    [raised |-> "", returncode |-> returncode, stdout |-> stdout, stderr |-> stderr,
     json |-> "none", containers |-> <<>>]
Inspected(json, containers) ==
    [raised |-> "", returncode |-> 0, stdout |-> <<>>, stderr |-> "",
     json |-> json, containers |-> containers]
Failed(exc) ==
    [raised |-> exc, returncode |-> 0, stdout |-> <<>>, stderr |-> "",
     json |-> "none", containers |-> <<>>]

\* except OSError: FileNotFoundError and PermissionError are OSErrors,
\* subprocess.TimeoutExpired is not
IsOSError(exc) == exc \in {"OSError", "FileNotFoundError", "PermissionError"}

\* _get_running_container_ids() on the outcome of docker ps -q: the pair
\* (container_ids, reason), container_ids None when "listed" is false
_get_running_container_ids(ps) ==
    LET none(reason) == [listed |-> FALSE, ids |-> <<>>, error |-> reason, raised |-> ""]
    IN  IF ps.raised = "FileNotFoundError" THEN none(<<"docker binary not found">>)
        ELSE IF ps.raised = "TimeoutExpired" THEN none(<<"docker command timed out">>)
        ELSE IF IsOSError(ps.raised) THEN none(<<"OS error: ", ps.raised>>)
        ELSE IF ps.raised # "" THEN [none(<<>>) EXCEPT !.raised = ps.raised]
        ELSE IF ps.returncode # 0
        THEN none(<<"docker ps failed (",
                    IF ps.stderr # "" THEN ps.stderr ELSE "non-zero exit", ")">>)
        ELSE [listed |-> TRUE, ids |-> SelectSeq(ps.stdout, LAMBDA cid : cid # ""),
              error |-> <<>>, raised |-> ""]

\* Mutant of _inspect_containers: the return code of docker inspect is not
\* looked at
InspectContainersIgnoringExit(inspect) ==
    LET none == [inspected |-> FALSE, containers |-> <<>>, raised |-> ""]
    IN  IF inspect.raised \in {"FileNotFoundError", "TimeoutExpired"} \/ IsOSError(inspect.raised)
        THEN none
        ELSE IF inspect.raised # "" THEN [none EXCEPT !.raised = inspect.raised]
        ELSE IF inspect.json \in {"invalid", "null"} THEN none
        ELSE [inspected |-> TRUE, containers |-> inspect.containers, raised |-> ""]

\* _inspect_containers(container_ids) on the outcome of docker inspect: the
\* parsed list, or None when "inspected" is false
_inspect_containers(inspect) ==
    LET none == [inspected |-> FALSE, containers |-> <<>>, raised |-> ""]
    IN  IF inspect.raised \in {"FileNotFoundError", "TimeoutExpired"} \/ IsOSError(inspect.raised)
        THEN none
        ELSE IF inspect.raised # "" THEN [none EXCEPT !.raised = inspect.raised]
        ELSE IF inspect.returncode # 0 THEN none
        \* json.loads(result.stdout): JSONDecodeError, null, or the list
        ELSE IF inspect.json \in {"invalid", "null"} THEN none
        ELSE [inspected |-> TRUE, containers |-> inspect.containers, raised |-> ""]

\* What DockerScanner.scan returns (facts, warnings), or the exception raised
Scanned(docker_facts, warnings) == [facts |-> docker_facts, warnings |-> warnings, raised |-> ""]

\* DockerScanner.scan() on the outcomes of the two docker commands
DockerScannerScan(ps, inspect) ==
    LET listing == _get_running_container_ids(ps)
        inspection == _inspect_containers(inspect)
    IN  IF listing.raised # "" THEN [Scanned(<<>>, <<>>) EXCEPT !.raised = listing.raised]
        ELSE IF ~listing.listed
        THEN Scanned(<<>>, <<<<"Docker: ">> \o listing.error
                               \o <<"; skipping container inspection">>>>)
        ELSE IF listing.ids = <<>> THEN Scanned(<<>>, <<>>)
        ELSE IF inspection.raised # ""
        THEN [Scanned(<<>>, <<>>) EXCEPT !.raised = inspection.raised]
        ELSE IF ~inspection.inspected
        THEN Scanned(<<>>, <<<<"Failed to inspect running Docker containers">>>>)
        ELSE Scanned(parse_inspect_output(inspection.containers), <<>>)

---------------------------------------------------------------------------
(* clawshield/scanners/openclaw/config.py *)
(* A file of the machine is what the calls on its path give: "read" is the    *)
(* exception of read_text(encoding="utf-8") if there is one, "json" and       *)
(* "yaml" are what json.loads and yaml.safe_load make of the text, "words"    *)
(* and "lines" are the text as the secrets scanner looks at it, "st_mode" is  *)
(* what stat() reports, "parent" is the directory of the path.                *)

_PUBLIC_BIND_MODES == {"0.0.0.0", "::", "lan", "public"}
_LOOPBACK_BIND_MODES == {"loopback", "localhost", "127.0.0.1", "::1"}
_AUTH_ENABLED_MODES == {"token", "password", "trusted-proxy"}
_SHELL_PROFILES == {"full", "coding"}
_SHELL_TOOLS == {"exec", "bash", "process", "group:runtime"}
_MIN_TOKEN_LENGTH == 32
_WEAK_TOKEN_PATTERNS ==
    {"changeme", "default", "password", "secret", "token", "admin",
     "1234", "test", "example", "placeholder", "replace_me", "fixme"}

\* _KNOWN_KEY_NAMES of secrets.py, and k.lower() for each of them
_KNOWN_KEY_NAMES ==
    <<"OPENAI_API_KEY", "ANTHROPIC_API_KEY", "GOOGLE_API_KEY", "AZURE_OPENAI_API_KEY",
      "COHERE_API_KEY", "MISTRAL_API_KEY", "HUGGINGFACEHUB_API_TOKEN", "HF_TOKEN">>
_KNOWN_KEY_NAMES_LOWER ==
    <<"openai_api_key", "anthropic_api_key", "google_api_key", "azure_openai_api_key",
      "cohere_api_key", "mistral_api_key", "huggingfacehub_api_token", "hf_token">>

\* s.strip() and s.lower() on the strings of the configurations: the strings
\* with blanks around them or capitals in them are listed, the others are kept
Strip(s) ==
    CASE s = " 0.0.0.0 " -> "0.0.0.0"
      [] s = " Off " -> "Off"
      [] s = " YES" -> "YES"
      [] OTHER -> s
Lower(s) ==
    CASE \E i \in 1..Len(_KNOWN_KEY_NAMES) : s = _KNOWN_KEY_NAMES[i] ->
            _KNOWN_KEY_NAMES_LOWER[CHOOSE i \in 1..Len(_KNOWN_KEY_NAMES) : s = _KNOWN_KEY_NAMES[i]]
      [] s = "Anthropic_Api_Key" -> "anthropic_api_key"
      [] s = "LAN" -> "lan"
      [] s = "Off" -> "off"
      [] s = "YES" -> "yes"
      [] s = "Token" -> "token"
      [] s = "Exec" -> "exec"
      [] s = "ChangeMe" -> "changeme"
      [] s = "True" -> "true"
      [] s = "False" -> "false"
      [] OTHER -> s

\* bool(x) on a value of a configuration document
Bool(x) ==
    CASE x.ty = "NoneType" -> FALSE
      [] x.ty = "bool" -> x.v = "True"
      [] x.ty = "int" -> x.v # "0"
      [] x.ty = "str" -> x.v # ""
      [] x.ty = "dict" -> x.keys # <<>>
      [] OTHER -> x.items # <<>>

\* x or {}
OrEmptyDict(x) == IF Bool(x) THEN x ELSE PyDict(<<>>, <<>>)

\* _load_config(path): the document, None, or the exception raised
_load_config(file) ==
    LET none == [config |-> PyNone, raised |-> ""]
    IN  \* path.read_text(encoding="utf-8"), except OSError
        IF IsOSError(file.read) THEN none
        ELSE IF file.read # "" THEN [none EXCEPT !.raised = file.read]
        ELSE IF file.suffix = ".json"
        THEN IF file.json.ok THEN [none EXCEPT !.config = OrEmptyDict(file.json.value)]
             ELSE none
        ELSE IF file.json.ok /\ IsDict(file.json.value)
        THEN [none EXCEPT !.config = file.json.value]
        ELSE IF file.yaml.ok THEN [none EXCEPT !.config = OrEmptyDict(file.yaml.value)]
        ELSE none

\* _is_json_format(path, config): "True", "False" or the exception raised
_is_json_format(file, config) ==
    IF file.suffix = ".json" THEN "True" ELSE KeyIn("gateway", config)

RECURSIVE DeepGetFrom(_, _, _)
\* Lines 244-250: the loop of _deep_get from the i-th part of the key on
DeepGetFrom(current, parts, i) ==
    IF i > Len(parts) THEN current
    ELSE IF ~IsDict(current) THEN PyNone
    ELSE LET next == Get(current, parts[i], PyNone)
         IN  IF next = PyNone THEN PyNone ELSE DeepGetFrom(next, parts, i + 1)

\* _deep_get(d, dotted_key), the dotted key given by its parts
_deep_get(d, parts) == DeepGetFrom(d, parts, 1)

\* _normalize_json_bind(value)
_normalize_json_bind(value) ==
    LET s == Lower(Strip(Str(value)))
    IN  IF s \in _LOOPBACK_BIND_MODES THEN "127.0.0.1"
        ELSE IF s \in _PUBLIC_BIND_MODES THEN "0.0.0.0"
        ELSE s

\* _normalize_bind_address(value)
_normalize_bind_address(value) == Strip(Str(value))

\* _normalize_bool(value)
_normalize_bool(value) ==
    IF value.ty = "bool" THEN value
    ELSE IF value.ty = "str" /\ Lower(Strip(value.v)) \in {"true", "1", "yes"} THEN PyBool(TRUE)
    ELSE IF value.ty = "str" /\ Lower(Strip(value.v)) \in {"false", "0", "no"} THEN PyBool(FALSE)
    ELSE value

\* What a scanner returns: its facts, or the exception raised
Collected(fs) == [facts |-> fs, raised |-> ""]
ScannerRaised(exc) == [facts |-> <<>>, raised |-> exc]

\* _extract_json_facts(config, source)
_extract_json_facts(config, source) ==
    LET defaulted == source \o <<" (defaulted)">>
        bind == _deep_get(config, <<"gateway", "bind">>)
        auth_mode == _deep_get(config, <<"gateway", "auth", "mode">>)
        mode_str == Lower(Strip(Str(auth_mode)))
        has_gateway == KeyIn("gateway", config)
        token == _deep_get(config, <<"gateway", "auth", "token">>)
        token_str == Str(token)
        is_weak == \/ Len(token_str) < _MIN_TOKEN_LENGTH
                   \/ Lower(Strip(token_str)) \in _WEAK_TOKEN_PATTERNS
        sandbox_mode == _deep_get(config, <<"agents", "defaults", "sandbox", "mode">>)
        denied == _deep_get(config, <<"tools", "deny">>)
        tools_deny == IF Bool(denied) THEN denied ELSE PyList(<<>>)
        deny_set == {Lower(Strip(Str(d))) : d \in Range(Elements(tools_deny))}
        shell_denied == _SHELL_TOOLS \cap deny_set # {}
        commands_bash == _deep_get(config, <<"commands", "bash">>)
        tools_profile == _deep_get(config, <<"tools", "profile">>)
        profile == IF tools_profile # PyNone THEN Lower(Strip(Str(tools_profile))) ELSE "full"
        shell_enabled == IF commands_bash.ty = "bool"
                         THEN commands_bash.v = "True" /\ ~shell_denied
                         ELSE IF shell_denied THEN FALSE
                         ELSE profile \in _SHELL_PROFILES
        shell_src == IF commands_bash.ty = "bool" \/ shell_denied \/ tools_profile # PyNone
                     THEN source ELSE defaulted
        browser_val == _deep_get(config, <<"browser", "enabled">>)
        browser_denied == {"browser", "group:ui"} \cap deny_set # {}
        redact == _deep_get(config, <<"logging", "redactSensitive">>)
    IN  \* line 114: "gateway" in config
        IF auth_mode = PyNone /\ has_gateway = "TypeError" THEN ScannerRaised("TypeError")
        \* line 135: for d in tools_deny
        ELSE IF ~Iterable(tools_deny) THEN ScannerRaised("TypeError")
        ELSE Collected(
            (IF bind # PyNone
             THEN <<Fact("network.bind_address", PyStr(_normalize_json_bind(bind)), source)>>
             ELSE <<>>)
            \o (IF auth_mode # PyNone
                THEN <<Fact("runtime.auth_enabled", PyBool(mode_str \in _AUTH_ENABLED_MODES), source),
                       Fact("runtime.auth_mode", PyStr(mode_str), source)>>
                ELSE IF has_gateway = "True"
                THEN <<Fact("runtime.auth_enabled", PyBool(FALSE), source),
                       Fact("runtime.auth_mode", PyStr("none"), defaulted)>>
                ELSE <<>>)
            \o (IF token # PyNone
                THEN <<Fact("runtime.auth_token_length", PyInt(ToString(Len(token_str))), source),
                       Fact("runtime.auth_token_weak", PyBool(is_weak), source)>>
                ELSE <<>>)
            \o <<IF sandbox_mode # PyNone
                 THEN Fact("sandbox.enabled",
                           PyBool(Lower(Strip(Str(sandbox_mode))) # "off"), source)
                 ELSE Fact("sandbox.enabled", PyBool(FALSE), defaulted)>>
            \o <<Fact("tools.shell_enabled", PyBool(shell_enabled), shell_src)>>
            \o <<IF browser_val # PyNone
                 THEN Fact("browser.enabled", PyBool(Bool(browser_val) /\ ~browser_denied), source)
                 ELSE Fact("browser.enabled", PyBool(~browser_denied), defaulted)>>
            \o <<IF redact # PyNone
                 THEN Fact("logging.redaction_enabled",
                           PyBool(Lower(Strip(Str(redact))) # "off"), source)
                 ELSE Fact("logging.redaction_enabled", PyBool(TRUE), defaulted)>>
            \o <<Fact("logging.file_logs_redacted", PyBool(FALSE),
                      source \o <<" (documented behavior)">>)>>)

\* _extract_yaml_facts(config, source)
_extract_yaml_facts(config, source) ==
    LET bind == _deep_get(config, <<"server", "bind_address">>)
        auth == _deep_get(config, <<"auth", "enabled">>)
    IN  Collected(
            (IF bind # PyNone
             THEN <<Fact("network.bind_address", PyStr(_normalize_bind_address(bind)), source)>>
             ELSE <<>>)
            \o (IF auth # PyNone
                THEN <<Fact("runtime.auth_enabled", _normalize_bool(auth), source)>>
                ELSE <<>>))

\* OpenClawConfigScanner.scan(config_paths), for the one path the adapter
\* resolves
ConfigScan(file) ==
    LET loaded == _load_config(file)
        source == <<"openclaw_config:", file.path>>
        json_format == _is_json_format(file, loaded.config)
    IN  IF loaded.raised # "" THEN ScannerRaised(loaded.raised)
        ELSE IF loaded.config = PyNone THEN Collected(<<>>)
        ELSE IF json_format = "TypeError" THEN ScannerRaised("TypeError")
        ELSE IF json_format = "True" THEN _extract_json_facts(loaded.config, source)
        ELSE _extract_yaml_facts(loaded.config, source)

---------------------------------------------------------------------------
(* clawshield/scanners/openclaw/secrets.py *)

\* config_path.parent / ".env"
EnvPath(file) == file.parent \o "/.env"

\* _scan_env_for_keys(env_path): the lines are given stripped and in parts, a
\* comment begins with the part "#", an assignment is name, "=", value
_scan_env_for_keys(env) ==
    /\ ~IsOSError(env.read)
    /\ \E i \in 1..Len(env.lines) :
        LET stripped == env.lines[i]
        IN  /\ stripped # <<>>
            /\ stripped[1] # "#"
            /\ Len(stripped) >= 2
            /\ stripped[1] \in Range(_KNOWN_KEY_NAMES)
            /\ stripped[2] = "="

\* _scan_file_for_key_names(file_path): the text is given by its words, and a
\* key name is looked for as a word
_scan_file_for_key_names(file) ==
    /\ ~IsOSError(file.read)
    /\ \E i \in 1..Len(file.words) : Lower(file.words[i]) \in Range(_KNOWN_KEY_NAMES_LOWER)

\* SecretsLiteScanner.scan(config_paths), for the one path the adapter resolves
SecretsScan(file, env) ==
    LET env_exists == env.is_file
        env_source == <<"secrets_lite:", EnvPath(file)>>
    IN  Collected(
            <<Fact("secrets.env_file_present", PyBool(env_exists), env_source),
              Fact("secrets.api_key_in_env_file",
                   PyBool(IF env_exists THEN _scan_env_for_keys(env) ELSE FALSE), env_source),
              Fact("secrets.api_key_in_config", PyBool(_scan_file_for_key_names(file)),
                   <<"secrets_lite:", file.path>>)>>)

---------------------------------------------------------------------------
(* clawshield/scanners/openclaw/permissions.py *)

\* stat.S_IROTH, stat.S_IWOTH
S_IROTH == 4
S_IWOTH == 2

\* mode & bit, for a bit that is a power of two
HasBit(st_mode, bit) == (st_mode \div bit) % 2 = 1

\* _get_mode(path): the mode bits, or None ("known" is false)
_get_mode(file, is_posix) ==
    IF ~is_posix \/ IsOSError(file.stat) THEN [known |-> FALSE, st_mode |-> 0]
    ELSE [known |-> TRUE, st_mode |-> file.st_mode]

_is_world_readable(mode) == mode.known /\ HasBit(mode.st_mode, S_IROTH)
_is_world_writable(mode) == mode.known /\ HasBit(mode.st_mode, S_IWOTH)

\* FilePermissionsScanner.scan(config_paths), for the one path the adapter
\* resolves
PermissionsScan(file, env, is_posix) ==
    LET mode == _get_mode(file, is_posix)
        env_mode == _get_mode(env, is_posix)
        env_source == <<"file_permissions:", EnvPath(file)>>
    IN  Collected(
            <<Fact("files.config_world_writable", PyBool(_is_world_writable(mode)),
                   <<"file_permissions:", file.path>>),
              Fact("files.env_world_readable",
                   PyBool(env.is_file /\ _is_world_readable(env_mode)), env_source),
              Fact("files.env_world_writable",
                   PyBool(env.is_file /\ _is_world_writable(env_mode)), env_source)>>)

---------------------------------------------------------------------------
(* The conditions and fact maps the calls are made on *)

Leaf(f, o, v) == PyDict(<<"fact", "op", "value">>, <<f, o, v>>)
AllOf(cs) == PyDict(<<"all">>, <<PyList(cs)>>)
AnyOf(cs) == PyDict(<<"any">>, <<PyList(cs)>>)

\* Sequences over S of length at most n
SeqsUpTo(S, n) == UNION {[1..k -> S] : k \in 0..n}

FactNames == {"a", "b"}
FactValues == {PyNone, PyInt("1"), PyStr("a")}
FactMaps == UNION {[D -> FactValues] : D \in SUBSET FactNames}

\* Leaves with all three keys: str and non-str fact keys, known, unknown and
\* non-str operators, scalar and container values
LeafFacts == {PyStr("a"), PyStr("b"), PyStr(""), PyList(<<PyStr("a")>>)}
LeafOps == {PyStr("eq"), PyStr("in"), PyStr("regex"), PyList(<<PyStr("eq")>>), PyNone}
LeafValues ==
    {PyNone, PyInt("1"), PyBool(TRUE), PyStr("a"), PyList(<<>>),
     PyList(<<PyNone, PyInt("1")>>), PySet(<<PyInt("1")>>)}
FullLeaves == {Leaf(f, o, v) : f \in LeafFacts, o \in LeafOps, v \in LeafValues}

\* Leaves lacking some of the three keys
PartialLeaves ==
    {PyDict(<<>>, <<>>)}
    \cup {PyDict(<<"fact">>, <<f>>) : f \in {PyStr("a")}}
    \cup {PyDict(<<"op">>, <<o>>) : o \in LeafOps}
    \cup {PyDict(<<"value">>, <<v>>) : v \in {PyInt("1")}}
    \cup {PyDict(<<"fact", "op">>, <<PyStr("a"), o>>) : o \in LeafOps}
    \cup {PyDict(<<"fact", "value">>, <<PyStr("a"), v>>) : v \in {PyInt("1")}}
    \cup {PyDict(<<"op", "value">>, <<o, PyInt("1")>>) : o \in LeafOps}

\* The children combinators are built from: leaves that hold or not with the
\* facts, leaves that raise, a non-dict child, and nested combinators
LeafEq == Leaf(PyStr("a"), PyStr("eq"), PyInt("1"))
LeafIn == Leaf(PyStr("b"), PyStr("in"), PyList(<<PyNone, PyInt("1")>>))
LeafInNone == Leaf(PyStr("a"), PyStr("in"), PyNone)
LeafRegex == Leaf(PyStr("a"), PyStr("regex"), PyInt("1"))
LeafNoValue == PyDict(<<"fact", "op">>, <<PyStr("a"), PyStr("eq")>>)
LeafListOp == Leaf(PyStr("a"), PyList(<<PyStr("eq")>>), PyInt("1"))
NonListAll == PyDict(<<"all">>, <<PyInt("1")>>)
ChildLeaves == {LeafEq, LeafIn, LeafInNone, LeafRegex, LeafNoValue, LeafListOp, PyInt("1")}
NestedNodes ==
    {AllOf(<<>>), AnyOf(<<>>), AnyOf(<<LeafEq>>), AllOf(<<LeafIn, LeafRegex>>),
     NonListAll, AnyOf(<<AllOf(<<LeafNoValue>>)>>)}
Children == ChildLeaves \cup NestedNodes
Combinators ==
    {AllOf(cs) : cs \in SeqsUpTo(Children, MaxChildren)}
    \cup {AnyOf(cs) : cs \in SeqsUpTo(Children, MaxChildren)}

\* Combinators whose children field is no list, nodes with several of the
\* keys all, any, fact, and nodes that are no dict
OddNodes ==
    {PyDict(<<k>>, <<c>>) : k \in {"all", "any"},
        c \in {PyNone, PyInt("1"), PyStr(""), PyStr("a"), PyDict(<<>>, <<>>),
               PyDict(<<"fact">>, <<PyStr("a")>>), PySet(<<PyStr("a")>>)}}
    \cup {PyDict(<<"all", "any">>, <<PyList(<<a>>), PyList(<<b>>)>>) :
            a \in {LeafEq, LeafRegex}, b \in {LeafIn, LeafNoValue}}
    \cup {PyDict(<<"any", "fact", "op", "value">>,
                 <<PyList(<<c>>), PyStr("a"), PyStr("eq"), PyInt("1")>>) : c \in ChildLeaves}
    \cup {PyDict(<<"all", "op">>, <<PyInt("1"), PyStr("regex")>>)}
    \cup {PyNone, PyInt("1"), PyStr("a"), PyStr("all"), PyList(<<LeafEq>>),
          PyList(<<PyStr("all")>>)}

Nodes == FullLeaves \cup PartialLeaves \cup Combinators \cup OddNodes

NotValidated == [done |-> FALSE, errors |-> <<>>, raised |-> ""]
NoPolicy == [file |-> "none", document |-> PyNone]
NoCallers == <<>>
NoCli == [pc |-> "none"]
NoHost == [ps |-> Failed(""), inspect |-> Failed("")]
NoScan == [pc |-> "none"]

\* The policy files: rules with all five keys and a condition that validates or
\* not, rules lacking keys, a rule that is no dict
Rule(id, cond) ==
    PyDict(<<"id", "title", "severity", "confidence", "condition">>,
           <<PyStr(id), PyStr("t"), PyStr("high"), PyStr("medium"), cond>>)
RuleSamples ==
    {Rule("R1", LeafEq), Rule("R2", AnyOf(<<LeafIn, LeafEq>>)), Rule("R1", LeafInNone),
     Rule("B1", LeafRegex), Rule("B2", AllOf(<<LeafNoValue, LeafRegex>>)),
     Rule("B3", LeafListOp), Rule("B4", PyInt("1")),
     PyDict(<<"id">>, <<PyStr("X")>>), PyDict(<<>>, <<>>),
     PyDict(<<"title", "condition">>, <<PyStr("t"), LeafRegex>>),
     PyDict(<<"id", "condition">>, <<PyStr("X"), LeafListOp>>),
     PyStr("x")}
Documents ==
    {PyDict(<<"rules">>, <<PyList(rs)>>) : rs \in SeqsUpTo(RuleSamples, MaxRules)}
    \cup {PyDict(<<"rules">>, <<r>>) : r \in {PyNone, PyStr("x"), Rule("R1", LeafEq)}}
    \cup {PyDict(<<>>, <<>>), PyDict(<<"version">>, <<PyInt("1")>>),
          PyNone, PyStr("x"), PyList(<<Rule("R1", LeafEq)>>)}
Policies ==
    {[file |-> "ok", document |-> d] : d \in Documents}
    \cup {[file |-> f, document |-> PyNone] : f \in {"missing", "unparsable"}}

\* The facts the scanners hand over: a key from one or two sources
Sources == {"s1", "s2"}
ScannedValues == {PyNone, PyInt("1")}
Facts == {Fact(k, v, s) : k \in FactNames, v \in ScannedValues, s \in Sources}
FactLists == SeqsUpTo(Facts, MaxFacts)

\* The rules of the policies that are evaluated: rules that share an id, differ
\* in severity, refer to one or two keys or to none, declare actions, and one
\* that lacks keys
RuleOf(id, severity, cond) ==
    PyDict(<<"id", "title", "severity", "confidence", "condition">>,
           <<PyStr(id), PyStr("title of " \o id), PyStr(severity), PyStr("medium"), cond>>)
WithActions(rule, actions) == PyDict(rule.keys \o <<"actions">>, rule.items \o <<actions>>)
WithSeverity(rule, severity) ==
    PyDict(rule.keys, [i \in 1..Len(rule.keys) |->
                          IF rule.keys[i] = "severity" THEN severity ELSE rule.items[i]])
WithConfidence(rule, confidence) ==
    PyDict(rule.keys, [i \in 1..Len(rule.keys) |->
                          IF rule.keys[i] = "confidence" THEN confidence ELSE rule.items[i]])
LeafNull == Leaf(PyStr("b"), PyStr("eq"), PyNone)
DeclaredActions ==
    PyDict(<<"recommended", "autofix">>,
           <<PyList(<<PyDict(<<"id">>, <<PyStr("fix1")>>), PyDict(<<"id">>, <<PyStr("fix2")>>)>>),
             PyList(<<PyDict(<<"id">>, <<PyStr("fix1")>>)>>)>>)
\* actions that declare recommended entries only, and an autofix entry next to
\* an empty list of recommended ones
RecommendedOnly ==
    PyDict(<<"recommended">>,
           <<PyList(<<PyDict(<<"id">>, <<PyStr("fix2")>>), PyDict(<<"id">>, <<PyStr("fix1")>>)>>)>>)
AutofixOnly ==
    PyDict(<<"recommended", "autofix">>,
           <<PyList(<<>>), PyList(<<PyDict(<<"id">>, <<PyStr("fix3")>>)>>)>>)
EvalRules ==
    {RuleOf("R1", "low", LeafEq),
     RuleOf("R2", "critical", AnyOf(<<LeafNull, LeafEq>>)),
     RuleOf("R1", "high", LeafNull),
     RuleOf("R3", "medium", LeafInNone),
     WithActions(RuleOf("R4", "low", AllOf(<<>>)), DeclaredActions),
     WithActions(RuleOf("R5", "high", LeafEq), PyNone),
     WithActions(RuleOf("R6", "medium", LeafEq), RecommendedOnly),
     WithActions(RuleOf("R7", "high", LeafNull), AutofixOnly),
     PyDict(<<"id">>, <<PyStr("X")>>)}
\* The fact lists of repeated and of simultaneous calls: no fact, one fact, a key
\* from two sources, two keys
CallFactLists ==
    {<<>>,
     <<Fact("a", PyInt("1"), "s1")>>,
     <<Fact("a", PyNone, "s1"), Fact("a", PyInt("1"), "s2")>>,
     <<Fact("b", PyNone, "s2"), Fact("a", PyInt("1"), "s1")>>}

\* The callers that run evaluate at the same time on one engine
Callers == {"c1", "c2"}
Idle == [pc |-> "idle", facts |-> <<>>, fact_map |-> <<>>, warnings |-> <<>>,
         findings |-> <<>>, i |-> 1, result |-> EvalRaised("")]

EvalPolicies ==
    {[file |-> "ok", document |-> PyDict(<<"rules">>, <<PyList(rs)>>)] :
        rs \in SeqsUpTo(EvalRules, MaxRules)}

\* The policies main is run on: rules of every severity in either order, a rule
\* that declares actions, rules whose severity is none of the four levels (a
\* word, null) and whose confidence is none of the three, a rule that lacks keys, a path that does not exist, a file that
\* does not parse, a document that is no mapping
CliRules ==
    {RuleOf("R1", "low", LeafEq),
     RuleOf("R2", "critical", AnyOf(<<LeafNull, LeafEq>>)),
     RuleOf("R1", "high", LeafNull),
     WithActions(RuleOf("R4", "medium", AllOf(<<>>)), DeclaredActions),
     RuleOf("R6", "urgent", LeafEq),
     WithConfidence(WithSeverity(RuleOf("R7", "low", LeafEq), PyNone), PyStr("certain"))}
CliPolicies ==
    {[file |-> "ok", document |-> PyDict(<<"rules">>, <<PyList(rs)>>)] :
        rs \in SeqsUpTo(CliRules, MaxRules)
                \cup {<<RuleOf("R3", "medium", LeafInNone)>>, <<PyDict(<<"id">>, <<PyStr("X")>>)>>}}
    \cup {[file |-> f, document |-> PyNone] : f \in {"missing", "unparsable"}}
    \cup {[file |-> "ok", document |-> PyStr("x")]}
\* What DockerScanner.scan adds to the warnings
DockerWarnings == {<<>>, <<<<"docker binary not found">>>>}

\* What docker inspect reports for a container: the id, the name with its
\* leading slash, the user of Config and the Privileged flag of HostConfig
Id13 == <<"a", "b", "c", "d", "e", "f", "0", "1", "2", "3", "4", "5", "6">>
ContainerOf(name, user, privileged) ==
    PyDict(<<"Id", "Name", "Config", "HostConfig">>,
           <<Text(Id13), Text(name),
             PyDict(<<"User", "Image">>, <<user, Text(<<"i">>)>>),
             PyDict(<<"Privileged">>, <<PyBool(privileged)>>)>>)
\* The containers of the long lists: no user, UID 0 with a group, and another
\* UID with the group 0 that is privileged
ContainerKinds ==
    {[user |-> <<>>, privileged |-> FALSE],
     [user |-> <<"0", ":", "0">>, privileged |-> FALSE],
     [user |-> <<"1", "0", ":", "0">>, privileged |-> TRUE]}
\* Containers that lack fields or hold null, and users given by name
OddContainers ==
    {PyDict(<<"Id", "Config", "HostConfig">>,
            <<Text(Id13), PyDict(<<"User">>, <<Text(<<"1">>)>>),
              PyDict(<<"Privileged">>, <<PyBool(FALSE)>>)>>),
     PyDict(<<"Id", "Config", "HostConfig">>,
            <<PyNone, PyDict(<<"User">>, <<Text(<<>>)>>),
              PyDict(<<"Privileged">>, <<PyBool(TRUE)>>)>>),
     PyDict(<<"Name">>, <<Text(<<"/", "/", "x">>)>>),
     PyDict(<<"Id", "Name", "Config", "HostConfig">>,
            <<Text(<<"i", "d">>), Text(<<>>), PyDict(<<"User">>, <<PyNone>>), PyDict(<<>>, <<>>)>>),
     ContainerOf(<<"/", "r">>, Text(<<"r", "o", "o", "t">>), FALSE),
     ContainerOf(<<"/", "z">>, Text(<<"0">>), FALSE),
     ContainerOf(<<"/", "g">>, Text(<<"r", "o", "o", "t", ":", "r", "o", "o", "t">>), FALSE),
     ContainerOf(<<"/", "n">>, Text(<<"0", "0">>), TRUE)}
ContainerLists ==
    UNION {{[i \in 1..n |-> ContainerOf(<<"/", "c", ToString(i)>>, Text(kinds[i].user),
                                         kinds[i].privileged)] :
                kinds \in [1..n -> ContainerKinds]} : n \in 0..MaxContainers}
    \cup SeqsUpTo(OddContainers, 2)

\* What the two docker commands can end with on a machine
ProcessFailures == {Failed(exc) : exc \in {"FileNotFoundError", "TimeoutExpired",
                                           "PermissionError", "OSError"}}
PsOutcomes ==
    ProcessFailures
    \cup {Finished(1, <<>>, ""), Finished(1, <<>>, "Cannot connect to the Docker daemon"),
          Finished(0, <<>>, ""), Finished(0, <<"abcdef012345">>, ""),
          Finished(0, <<"abcdef012345", "", "0123456789ab">>, "")}
InspectOutcomes ==
    ProcessFailures
    \cup {Finished(1, <<>>, "Error: No such object"),
          Inspected("invalid", <<>>), Inspected("null", <<>>)}
    \cup {Inspected("list", containers) : containers \in ContainerLists}
\* docker inspect runs only after docker ps has listed a container
DockerHosts ==
    {[ps |-> ps, inspect |-> inspect] :
        ps \in {o \in PsOutcomes : _get_running_container_ids(o).ids # <<>>},
        inspect \in InspectOutcomes}
    \cup {[ps |-> ps, inspect |-> Failed("")] :
            ps \in {o \in PsOutcomes : _get_running_container_ids(o).ids = <<>>}}

\* The configuration files of a machine.  What the parsers make of a text:
ParsesTo(value) == [ok |-> TRUE, value |-> value]
NoParse == [ok |-> FALSE, value |-> PyNone]
FileOf(parent, name, suffix, read, json, yaml) ==
    [path |-> parent \o "/" \o name \o suffix, parent |-> parent, suffix |-> suffix,
     is_file |-> TRUE, read |-> read,
     json |-> json, yaml |-> yaml, words |-> <<>>, lines |-> <<>>,
     stat |-> "", st_mode |-> 33188]
\* openclaw.json holding a JSON text; config.yaml holding a YAML text that is
\* no JSON, or a JSON text (every JSON text is a YAML text)
JsonFile(value) ==
    FileOf("/home/u/.openclaw", "openclaw", ".json", "", ParsesTo(value), ParsesTo(value))
YamlFile(value) == FileOf("/etc/openclaw", "config", ".yaml", "", NoParse, ParsesTo(value))
JsonInYamlFile(value) ==
    FileOf("/etc/openclaw", "config", ".yaml", "", ParsesTo(value), ParsesTo(value))
\* a text that does not parse, a file that cannot be opened, bytes that are
\* no UTF-8
BrokenFiles ==
    {FileOf("/home/u/.openclaw", "openclaw", ".json", "", NoParse, NoParse),
     FileOf("/etc/openclaw", "config", ".yaml", "", NoParse, NoParse)}
UnreadableFiles ==
    {FileOf("/home/u/.openclaw", "openclaw", ".json", "PermissionError", NoParse, NoParse),
     FileOf("/etc/openclaw", "config", ".yaml", "PermissionError", NoParse, NoParse)}
UndecodableFiles ==
    {FileOf("/etc/openclaw", "config", ".yaml", "UnicodeDecodeError", NoParse, NoParse)}

Dict1(k, x) == PyDict(<<k>>, <<x>>)
LongToken == "0123456789abcdef0123456789abcdef"
\* Documents of the native format
NativeDocuments ==
    {PyDict(<<"gateway", "agents", "tools", "browser", "logging">>,
            <<PyDict(<<"bind", "auth">>,
                     <<PyStr("loopback"),
                       PyDict(<<"mode", "token">>, <<PyStr("Token"), PyStr("ChangeMe")>>)>>),
              Dict1("defaults", Dict1("sandbox", Dict1("mode", PyStr(" Off ")))),
              Dict1("deny", PyList(<<PyStr("Exec")>>)),
              Dict1("enabled", PyBool(FALSE)),
              Dict1("redactSensitive", PyStr("off"))>>),
     Dict1("gateway", Dict1("bind", PyStr("LAN"))),
     PyDict(<<"gateway", "commands", "tools">>,
            <<PyDict(<<"bind", "auth">>,
                     <<PyStr("custom"),
                       PyDict(<<"mode", "token">>, <<PyStr("none"), PyStr(LongToken)>>)>>),
              Dict1("bash", PyBool(TRUE)),
              PyDict(<<"profile", "deny">>, <<PyStr("minimal"), PyList(<<PyStr("browser")>>)>>)>>),
     PyDict(<<"gateway", "tools", "commands">>,
            <<PyNone, Dict1("profile", PyStr("coding")), Dict1("bash", PyBool(FALSE))>>),
     Dict1("gateway", Dict1("auth", Dict1("token", PyInt("1234")))),
     PyDict(<<"gateway", "tools">>, <<PyDict(<<>>, <<>>), Dict1("deny", PyInt("5"))>>),
     PyDict(<<>>, <<>>)}
\* Documents of the legacy format
LegacyDocuments ==
    {PyDict(<<"server", "auth">>,
            <<Dict1("bind_address", PyStr(" 0.0.0.0 ")), Dict1("enabled", PyStr(" YES"))>>),
     PyDict(<<"server", "auth">>,
            <<Dict1("bind_address", PyStr("0.0.0.0")), Dict1("enabled", PyBool(FALSE))>>),
     PyDict(<<"server", "auth">>,
            <<Dict1("bind_address", PyStr("127.0.0.1")), Dict1("enabled", PyStr("maybe"))>>),
     PyDict(<<"server", "auth">>, <<PyStr("x"), Dict1("enabled", PyInt("1"))>>),
     PyDict(<<>>, <<>>)}
\* Texts that parse to something that is no mapping
OtherDocuments == {PyNone, PyInt("5"), PyStr("x"), PyBool(TRUE), PyList(<<PyInt("1")>>)}
ParsedFiles ==
    {JsonFile(d) : d \in NativeDocuments \cup OtherDocuments}
    \cup {YamlFile(d) : d \in LegacyDocuments \cup {Dict1("gateway", Dict1("bind", PyStr("LAN")))}}
    \cup {JsonInYamlFile(d) : d \in {Dict1("gateway", Dict1("bind", PyStr("LAN"))),
                                     PyDict(<<>>, <<>>)} \cup OtherDocuments}
\* The text names an API key or not, others may write the file or not
ConfigFiles ==
    {[f EXCEPT !.words = look.words, !.st_mode = look.st_mode] :
        f \in ParsedFiles \cup BrokenFiles \cup UnreadableFiles \cup UndecodableFiles,
        look \in {[words |-> <<"bind", "loopback">>, st_mode |-> 33188],
                  [words |-> <<"token", "Anthropic_Api_Key">>, st_mode |-> 33188],
                  [words |-> <<"OPENAI_API_KEY", "x">>, st_mode |-> 33206]}}
\* The .env in the directory of the configuration: none, one that assigns an API key and
\* can be read by all, one that names a key in a comment, one that cannot be
\* opened
EnvOf(is_file, read, lines, st_mode) ==
    [path |-> ".env", parent |-> "", suffix |-> "", is_file |-> is_file, read |-> read,
     json |-> NoParse, yaml |-> NoParse, words |-> <<>>, lines |-> lines,
     stat |-> "", st_mode |-> st_mode]
EnvFiles ==
    {EnvOf(FALSE, "FileNotFoundError", <<>>, 0),
     EnvOf(TRUE, "", <<<<"#", "keys">>, <<>>, <<"OPENAI_API_KEY", "=", "sk">>>>, 33188),
     EnvOf(TRUE, "", <<<<"#", "OPENAI_API_KEY", "=", "sk">>, <<"DEBUG", "=", "1">>>>, 33152),
     EnvOf(TRUE, "PermissionError", <<>>, 33206)}
\* What docker answers on the machines of the runs: no binary, nothing
\* running, one container that runs privileged as root
CollectDockers ==
    {[ps |-> Failed("FileNotFoundError"), inspect |-> Failed("")],
     [ps |-> Finished(0, <<>>, ""), inspect |-> Failed("")],
     [ps |-> Finished(0, <<"abcdef012345">>, ""),
      inspect |-> Inspected("list", <<ContainerOf(<<"/", "c", "1">>, Text(<<>>), TRUE)>>)]}
CollectHosts ==
    {[config |-> config, env |-> env, is_posix |-> is_posix,
      ps |-> docker.ps, inspect |-> docker.inspect] :
        config \in ConfigFiles, env \in EnvFiles, is_posix \in BOOLEAN,
        docker \in CollectDockers}
\* The policy of the runs: rules on facts of the configuration reader, of the
\* secrets scanner and of the docker scanner
CollectPolicy ==
    [file |-> "ok",
     document |->
        Dict1("rules",
              PyList(<<RuleOf("NET-001", "high",
                              Leaf(PyStr("network.bind_address"), PyStr("eq"), PyStr("0.0.0.0"))),
                       RuleOf("SEC-001", "critical",
                              Leaf(PyStr("secrets.api_key_in_config"), PyStr("eq"), PyBool(TRUE))),
                       RuleOf("DOC-001", "medium",
                              Leaf(PyStr("docker.privileged"), PyStr("eq"), PyBool(TRUE)))>>))]

---------------------------------------------------------------------------
(* Calls of validate_condition and evaluate_condition on one condition *)

Init ==
    /\ hashSeed \in {0, 1}
    /\ node \in Nodes
    /\ facts \in FactMaps
    /\ result = "pending"
    /\ validation = NotValidated
    /\ policy = NoPolicy
    /\ engine = NoEngine
    /\ loadError = NoError
    /\ calls = <<>>
    /\ callers = NoCallers
    /\ cli = NoCli
    /\ host = NoHost
    /\ scan = NoScan

\* errors = validate_condition(node)
Validate ==
    /\ ~validation.done
    /\ validation' = [done |-> TRUE] @@ validate_condition(node)
    /\ UNCHANGED <<hashSeed, node, facts, result, policy, engine, loadError, calls, callers, cli, host, scan>>

\* evaluate_condition(node, facts)
Evaluate ==
    /\ result = "pending"
    /\ result' = evaluate_condition(node, facts)
    /\ UNCHANGED <<hashSeed, node, facts, validation, policy, engine, loadError, calls, callers, cli, host, scan>>

Next == Validate \/ Evaluate

Spec == Init /\ [][Next]_vars

---------------------------------------------------------------------------
(* Properties of the condition evaluator *)

\* The node kinds as the walks tell them: all before any before leaf
IsAllNode(n) == IsDict(n) /\ HasKey(n, "all") /\ IsList(Item(n, "all"))
IsAnyNode(n) == IsDict(n) /\ ~HasKey(n, "all") /\ HasKey(n, "any") /\ IsList(Item(n, "any"))
IsLeafNode(n) ==
    /\ IsDict(n) /\ ~HasKey(n, "all") /\ ~HasKey(n, "any")
    /\ HasKey(n, "fact") /\ HasKey(n, "op") /\ HasKey(n, "value")
OpIs(n, o) == Item(n, "op") = PyStr(o)
Evaluated == result # "pending"

\* C1: for a node with an `all` key whose children is a list, evaluate_condition
\* returns true iff it returns true for every child on the same fact map; in
\* particular all: [] is true for every fact map.
C1_AllIffEveryChild ==
    (Evaluated /\ IsAllNode(node)) =>
        LET cs == Item(node, "all").items
        IN  /\ (result = "True") <=>
                    (\A i \in 1..Len(cs) : evaluate_condition(cs[i], facts) = "True")
            /\ (cs = <<>> => result = "True")

\* an all of two children, both true on the facts
C1_Witness ==
    /\ IsAllNode(node)
    /\ Len(Item(node, "all").items) = 2
    /\ result = "True"

\* C2 as stated: for a node with an `any` key, no `all` key and a list of
\* children, evaluate_condition returns true iff it returns true for at least
\* one child on the same fact map; any: [] is false for every fact map.
C2_AnyIffSomeChild ==
    (Evaluated /\ IsAnyNode(node)) =>
        LET cs == Item(node, "any").items
        IN  /\ (result = "True") <=>
                    (\E i \in 1..Len(cs) : evaluate_condition(cs[i], facts) = "True")
            /\ (cs = <<>> => result = "False")

\* C2: the same, told by what any() does with the children before the true one:
\* evaluate_condition returns true iff it returns true for some child and false
\* for every child before it; it returns false iff it returns false for every
\* child; any: [] is false for every fact map.
C2_AnyIffFirstDecidingChildTrue ==
    (Evaluated /\ IsAnyNode(node)) =>
        LET cs == Item(node, "any").items
            r(i) == evaluate_condition(cs[i], facts)
        IN  /\ (result = "True") <=>
                    (\E i \in 1..Len(cs) : r(i) = "True" /\ \A j \in 1..(i - 1) : r(j) = "False")
            /\ (result = "False") <=> (\A i \in 1..Len(cs) : r(i) = "False")
            /\ (cs = <<>> => result = "False")

\* an any of two children, true by its second child
C2_Witness ==
    /\ IsAnyNode(node)
    /\ Len(Item(node, "any").items) = 2
    /\ evaluate_condition(Item(node, "any").items[1], facts) = "False"
    /\ result = "True"

\* C3: a leaf with operator eq or in whose fact key is not a key of the fact
\* map evaluates to false, whatever the expected value (eq against null and in
\* against a list holding null included).  The fact key is one that can be
\* looked up (hashable).
C3_AbsentFactIsFalse ==
    (/\ Evaluated
     /\ IsLeafNode(node)
     /\ (OpIs(node, "eq") \/ OpIs(node, "in"))
     /\ Hashable(Item(node, "fact"))
     /\ ~InFacts(Item(node, "fact"), facts))
    => result = "False"

\* eq null on a fact the map does not have
C3_Witness ==
    /\ node = Leaf(PyStr("a"), PyStr("eq"), PyNone)
    /\ "a" \notin DOMAIN facts
    /\ result = "False"

\* the fact map without key k
FactsWithout(fmap, k) == [x \in DOMAIN fmap \ {k} |-> fmap[x]]
HoldsNone(xs) == \E i \in 1..Len(xs) : xs[i].ty = "NoneType"
PresentNull(n, fmap) ==
    /\ IsLeafNode(n)
    /\ InFacts(Item(n, "fact"), fmap)
    /\ fmap[Item(n, "fact").v] = PyNone

\* C4: on a fact present with value null the comparison runs: eq is true iff
\* the expected value is null, in is true iff null is a member of the leaf's
\* list; and the same eq null leaf is false once the key is absent.
C4_PresentNullCompares ==
    (Evaluated /\ PresentNull(node, facts)) =>
        LET expected == Item(node, "value")
        IN  /\ OpIs(node, "eq") =>
                    /\ (result = "True") <=> (expected = PyNone)
                    /\ result \in {"True", "False"}
                    /\ expected = PyNone =>
                          evaluate_condition(node, FactsWithout(facts, Item(node, "fact").v)) = "False"
            /\ (OpIs(node, "in") /\ IsListTupleSet(expected)) =>
                    /\ (result = "True") <=> HoldsNone(expected.items)
                    /\ result \in {"True", "False"}

\* eq null on a fact present with null
C4_Witness ==
    /\ PresentNull(node, facts)
    /\ OpIs(node, "eq")
    /\ Item(node, "value") = PyNone
    /\ result = "True"

\* C22 as stated: evaluating a leaf whose operator is neither eq nor in raises
\* an error and yields no boolean, for every fact map, whether or not the
\* leaf's fact key is present.
C22_UnknownOperatorAlwaysRaises ==
    (/\ Evaluated
     /\ IsLeafNode(node)
     /\ ~OpIs(node, "eq") /\ ~OpIs(node, "in"))
    => result \notin {"True", "False"}

\* C22: evaluating a leaf whose operator is neither eq nor in raises an error
\* and yields no boolean for every fact map that has the leaf's fact key (a
\* null value included); on a fact map without the key the leaf is false, the
\* operator is not looked at; it is never true.
C22_UnknownOperatorRaisesOnPresentFact ==
    (/\ Evaluated
     /\ IsLeafNode(node)
     /\ ~OpIs(node, "eq") /\ ~OpIs(node, "in")
     /\ Hashable(Item(node, "fact")))
    =>  /\ InFacts(Item(node, "fact"), facts) => result = "ValueError"
        /\ ~InFacts(Item(node, "fact"), facts) => result = "False"

\* The leaf a regex 1 on a fact map that holds a with the value null
C22_Witness ==
    /\ node = LeafRegex
    /\ "a" \in DOMAIN facts /\ facts["a"] = PyNone
    /\ result = "ValueError"

---------------------------------------------------------------------------
(* Properties of the condition validator *)

\* validate_condition(node) returned no errors
Validated == validation.done /\ validation.raised = "" /\ validation.errors = <<>>

\* C5 as stated: evaluate_condition is total over validated trees: on a tree for
\* which validate_condition returns no errors it returns a bool for every fact
\* map and never raises.
C5_TotalOverValidatedTrees ==
    (Validated /\ Evaluated) => result \in {"True", "False"}

RECURSIVE LeavesOf(_)
\* The leaves of a tree: the nodes the walks take for leaves
LeavesOf(n) ==
    IF ~IsDict(n) THEN {}
    ELSE IF HasKey(n, "all") THEN
        (IF IsList(Item(n, "all"))
         THEN UNION {LeavesOf(c) : c \in Range(Item(n, "all").items)} ELSE {})
    ELSE IF HasKey(n, "any") THEN
        (IF IsList(Item(n, "any"))
         THEN UNION {LeavesOf(c) : c \in Range(Item(n, "any").items)} ELSE {})
    ELSE {n}

\* C6 as stated: every leaf of a tree for which validate_condition returns no
\* errors has a non-empty `fact` key, an `op` in {eq, in} and, when `op` is `in`,
\* a `value` that is a list or set, never a scalar or null.
C6_ValidatedLeafShape ==
    Validated =>
        \A l \in LeavesOf(node) :
            /\ HasKey(l, "fact") /\ HasKey(l, "op") /\ HasKey(l, "value")
            /\ Item(l, "fact").ty = "str" /\ Item(l, "fact").v # ""
            /\ (OpIs(l, "eq") \/ OpIs(l, "in"))
            /\ OpIs(l, "in") => IsListTupleSet(Item(l, "value"))

\* A position in a tree: the <<label, j>> steps from the root, j the place of
\* the child among its parent's children (the child's index plus one)
ListChildren(n) ==
    IF ~IsDict(n) THEN [label |-> "", items |-> <<>>]
    ELSE IF HasKey(n, "all") THEN
        [label |-> "all", items |-> IF IsList(Item(n, "all")) THEN Item(n, "all").items ELSE <<>>]
    ELSE IF HasKey(n, "any") THEN
        [label |-> "any", items |-> IF IsList(Item(n, "any")) THEN Item(n, "any").items ELSE <<>>]
    ELSE [label |-> "", items |-> <<>>]

RECURSIVE Positions(_)
Positions(n) ==
    LET c == ListChildren(n)
    IN  {<<>>} \cup UNION {{<<<<c.label, j>>>> \o pos : pos \in Positions(c.items[j])} :
                            j \in 1..Len(c.items)}

RECURSIVE NodeAt(_, _)
NodeAt(n, pos) ==
    IF pos = <<>> THEN n ELSE NodeAt(ListChildren(n).items[pos[1][2]], Tail(pos))

RECURSIVE PathText(_)
\* The path label of a position: condition, then .all[i] or .any[i] per step
PathText(pos) ==
    IF pos = <<>> THEN <<"condition">>
    ELSE LET step == pos[Len(pos)]
         IN  PathText(SubSeq(pos, 1, Len(pos) - 1))
                \o <<"." \o step[1] \o "[", ToString(step[2] - 1), "]">>

IsPrefix(p, t) == Len(p) <= Len(t) /\ SubSeq(t, 1, Len(p)) = p
Rest(t, p) == SubSeq(t, Len(p) + 1, Len(t))

\* A combinator whose children field is not a list
NonListCombinator(n) ==
    /\ IsDict(n)
    /\ \/ HasKey(n, "all") /\ ~IsList(Item(n, "all"))
       \/ ~HasKey(n, "all") /\ HasKey(n, "any") /\ ~IsList(Item(n, "any"))

\* A node that is taken for a leaf
LeafKind(n) == IsDict(n) /\ ~HasKey(n, "all") /\ ~HasKey(n, "any")

\* C7 as stated: validate_condition never raises, whatever the node, and returns
\* an error for every problem of the tree: one per missing leaf key, an
\* "unknown operator" error for an op that is not eq or in (a non-str op
\* included), at every leaf of the tree, whatever its siblings hold.
C7_ValidateNeverRaisesReportsAll ==
    validation.done =>
        /\ validation.raised = ""
        /\ \A pos \in Positions(node) :
            LET n == NodeAt(node, pos)
                at(rest) == PathText(pos) \o rest \in Range(validation.errors)
            IN  LeafKind(n) =>
                    /\ \A key \in {"fact", "op", "value"} :
                            ~HasKey(n, key) => at(<<": missing required key '", key, "'">>)
                    /\ (HasKey(n, "op") /\ ~OpIs(n, "eq") /\ ~OpIs(n, "in")) =>
                            \E e \in Range(validation.errors) :
                                IsPrefix(PathText(pos) \o <<": unknown operator '">>, e)

RECURSIVE ReplaceAt(_, _, _)
\* The tree with the node at a position replaced
ReplaceAt(n, pos, new) ==
    IF pos = <<>> THEN new
    ELSE LET k == CHOOSE i \in 1..Len(n.keys) : n.keys[i] = pos[1][1]
             j == pos[1][2]
         IN  [n EXCEPT !.items[k].items[j] = ReplaceAt(@, Tail(pos), new)]

\* C8 as stated: when the children field of a combinator is not a list,
\* validate_condition records exactly one error for that node and does not go
\* into that branch, and the other branches are validated as they would be
\* with a well-formed node in its place.
C8_NonListChildrenOneError ==
    validation.done =>
        \A pos \in Positions(node) :
            NonListCombinator(NodeAt(node, pos)) =>
                LET p == PathText(pos)
                    there == {k \in 1..Len(validation.errors) : IsPrefix(p, validation.errors[k])}
                    others == SelectSeq(validation.errors, LAMBDA e : ~IsPrefix(p, e))
                IN  /\ Cardinality(there) = 1
                    /\ validate_condition(ReplaceAt(node, pos, LeafEq)).errors = others

\* The node with its list of children emptied
Shallow(n) ==
    IF ~IsDict(n) THEN n
    ELSE [n EXCEPT !.items = [i \in DOMAIN n.items |->
                IF n.keys[i] \in {"all", "any"} /\ IsList(n.items[i])
                THEN PyList(<<>>) ELSE n.items[i]]]

\* What _validate_node reports on a node itself, after the node's path
OwnErrors(n) == Range(_validate_node(Shallow(n), [errors |-> <<>>, raised |-> ""], <<>>).errors)

\* C9: every error validate_condition returns starts with the path of one node
\* of the tree, `condition` followed by .all[i] or .any[i] for each step down to
\* child index i, and is an error of that very node.
C9_ErrorPathLocatesNode ==
    validation.done =>
        \A k \in 1..Len(validation.errors) :
            LET e == validation.errors[k]
                hits == {pos \in Positions(node) :
                            /\ IsPrefix(PathText(pos), e)
                            /\ Rest(e, PathText(pos)) \in OwnErrors(NodeAt(node, pos))}
            IN  Cardinality(hits) = 1

\* an error reported two levels below the root
C9_Witness ==
    /\ validation.done
    /\ \E pos \in Positions(node) :
        /\ Len(pos) = 2
        /\ \E k \in 1..Len(validation.errors) : IsPrefix(PathText(pos), validation.errors[k])

---------------------------------------------------------------------------
(* Construction of a PolicyEngine on one policy file *)

InitLoad ==
    /\ hashSeed \in {0, 1}
    /\ node = PyNone
    /\ facts = <<>>
    /\ result = "pending"
    /\ validation = NotValidated
    /\ policy \in Policies
    /\ engine = NoEngine
    /\ loadError = NoError
    /\ calls = <<>>
    /\ callers = NoCallers
    /\ cli = NoCli
    /\ host = NoHost
    /\ scan = NoScan

Constructed == engine.loaded \/ loadError.type # ""

\* engine = PolicyEngine(policy_path)
Construct ==
    /\ policy.file # "none"
    /\ ~Constructed
    /\ LET made == PolicyEngineInit(policy)
       IN  /\ engine' = made.engine
           /\ loadError' = made.error
    /\ UNCHANGED <<hashSeed, node, facts, result, validation, policy, calls, callers, cli, host, scan>>

NextLoad == Construct

SpecLoad == InitLoad /\ [][NextLoad]_vars

---------------------------------------------------------------------------
(* One call of evaluate on a constructed PolicyEngine *)

InitEval ==
    /\ hashSeed \in {0, 1}
    /\ node = PyNone
    /\ facts = <<>>
    /\ result = "pending"
    /\ validation = NotValidated
    /\ policy \in EvalPolicies
    /\ engine = NoEngine
    /\ loadError = NoError
    /\ calls = <<>>
    /\ callers = NoCallers
    /\ cli = NoCli
    /\ host = NoHost
    /\ scan = NoScan

\* result = engine.evaluate(facts)
EvaluateFacts ==
    /\ engine.loaded
    /\ calls = <<>>
    /\ \E fs \in FactLists :
            calls' = <<[facts |-> fs, result |-> evaluate(engine._rules, fs)]>>
    /\ UNCHANGED <<hashSeed, node, facts, result, validation, policy, engine, loadError,
                   callers, cli, host, scan>>

NextEval == Construct \/ EvaluateFacts

SpecEval == InitEval /\ [][NextEval]_vars

---------------------------------------------------------------------------
(* Calls of evaluate one after the other on one PolicyEngine *)

\* Mutant of EvaluateAgain: the findings list is kept between the calls, each
\* call appends to what the call before returned
EvaluateAgainKeepingFindings ==
    /\ engine.loaded
    /\ Len(calls) < MaxCalls
    /\ \E fs \in CallFactLists :
        LET kept == IF calls = <<>> THEN <<>> ELSE calls[Len(calls)].result.findings
            now == evaluate(engine._rules, fs)
        IN  calls' = Append(calls, [facts |-> fs, after |-> fs,
                                    result |-> [now EXCEPT !.findings = kept \o @]])
    /\ UNCHANGED <<hashSeed, node, facts, result, validation, policy, engine, loadError,
                   callers, cli, host, scan>>

\* Mutant of EvaluateAgain: the actions of a rule are taken out of the rule
\* (rule.pop("actions", {})), so the rules of the engine lose them
EvaluateAgainPoppingActions ==
    /\ engine.loaded
    /\ Len(calls) < MaxCalls
    /\ \E fs \in CallFactLists :
            calls' = Append(calls, [facts |-> fs, after |-> fs,
                                    result |-> evaluate(engine._rules, fs)])
    /\ engine' = [engine EXCEPT !._rules =
            [i \in 1..Len(@) |->
                LET kept == {k \in 1..Len(@[i].keys) : @[i].keys[k] # "actions"}
                    place(n) == CHOOSE k \in kept : Cardinality({j \in kept : j <= k}) = n
                IN  PyDict([n \in 1..Cardinality(kept) |-> @[i].keys[place(n)]],
                           [n \in 1..Cardinality(kept) |-> @[i].items[place(n)]])]]
    /\ UNCHANGED <<hashSeed, node, facts, result, validation, policy, loadError,
                   callers, cli, host, scan>>

\* Mutant of EvaluateAgain: the evidence is taken out of the caller's list
\* (facts.remove(f) for each triggered fact)
EvaluateAgainConsumingFacts ==
    /\ engine.loaded
    /\ Len(calls) < MaxCalls
    /\ \E fs \in CallFactLists :
        LET now == evaluate(engine._rules, fs)
            shown == UNION {Range(now.findings[k].evidence) : k \in 1..Len(now.findings)}
        IN  calls' = Append(calls, [facts |-> fs,
                                    after |-> SelectSeq(fs, LAMBDA f : f \notin shown),
                                    result |-> now])
    /\ UNCHANGED <<hashSeed, node, facts, result, validation, policy, engine, loadError,
                   callers, cli, host, scan>>

\* Mutant of EvaluateAgain: one findings list serves every call
\* (self._findings), so the results returned before grow with each call
EvaluateAgainOnOneFindingsList ==
    /\ engine.loaded
    /\ Len(calls) < MaxCalls
    /\ \E fs \in CallFactLists :
        LET now == evaluate(engine._rules, fs)
            grown == [i \in 1..Len(calls) |->
                        [calls[i] EXCEPT !.result.findings = @ \o now.findings]]
        IN  calls' = Append(grown, [facts |-> fs, after |-> fs,
                                    result |-> IF calls = <<>> THEN now
                                               ELSE [now EXCEPT !.findings =
                                                        grown[Len(grown)].result.findings]])
    /\ UNCHANGED <<hashSeed, node, facts, result, validation, policy, engine, loadError,
                   callers, cli, host, scan>>

\* result = engine.evaluate(facts), once more on the same engine: the call
\* assigns no attribute of the engine, changes no rule, and only reads the
\* list it is given ("after" is the caller's list when the call has returned)
EvaluateAgain ==
    /\ engine.loaded
    /\ Len(calls) < MaxCalls
    /\ \E fs \in CallFactLists :
            calls' = Append(calls, [facts |-> fs, after |-> fs,
                                    result |-> evaluate(engine._rules, fs)])
    /\ UNCHANGED <<hashSeed, node, facts, result, validation, policy, engine, loadError,
                   callers, cli, host, scan>>

NextCalls == Construct \/ EvaluateAgain

SpecCalls == InitEval /\ [][NextCalls]_vars

---------------------------------------------------------------------------
(* Calls of evaluate by several callers at the same time on one PolicyEngine. *)
(* Each caller has its own locals (facts, fact_map, warnings, findings, the   *)
(* position in self._rules); the engine is the one object they share.         *)

InitConcurrent ==
    /\ hashSeed \in {0, 1}
    /\ node = PyNone
    /\ facts = <<>>
    /\ result = "pending"
    /\ validation = NotValidated
    /\ policy \in EvalPolicies
    /\ engine = NoEngine
    /\ loadError = NoError
    /\ calls = <<>>
    /\ callers = [c \in Callers |-> Idle]
    /\ cli = NoCli
    /\ host = NoHost
    /\ scan = NoScan

\* A caller enters engine.evaluate(facts) with a fact list of its own
Call(c) ==
    /\ engine.loaded
    /\ callers[c].pc = "idle"
    /\ \E fs \in CallFactLists :
            callers' = [callers EXCEPT ![c] = [@ EXCEPT !.pc = "correlate", !.facts = fs]]
    /\ UNCHANGED <<hashSeed, node, facts, result, validation, policy, engine, loadError,
                   calls, cli, host, scan>>

\* Lines 47-56: the fact map, the warnings and the empty findings list
Correlate(c) ==
    /\ callers[c].pc = "correlate"
    /\ LET correlated == _build_fact_map(callers[c].facts)
       IN  callers' = [callers EXCEPT ![c] =
                [@ EXCEPT !.pc = "rules",
                          !.fact_map = correlated.fact_map,
                          !.warnings = CollisionWarnings(correlated.collisions),
                          !.findings = <<>>,
                          !.i = 1]]
    /\ UNCHANGED <<hashSeed, node, facts, result, validation, policy, engine, loadError,
                   calls, cli, host, scan>>

\* Mutant of RuleTurn: one findings list for all callers, as an attribute of the
\* engine would be: the turn appends to the list every running caller holds
RuleTurnOnSharedFindings(c) ==
    /\ callers[c].pc = "rules"
    /\ callers[c].i <= Len(engine._rules)
    /\ LET turn == EvaluateRule(engine._rules[callers[c].i], callers[c].facts,
                                callers[c].fact_map, callers[c].findings)
       IN  callers' = [d \in Callers |->
                IF d = c
                THEN (IF turn.raised # ""
                      THEN [callers[c] EXCEPT !.pc = "done", !.result = EvalRaised(turn.raised)]
                      ELSE [callers[c] EXCEPT !.findings = turn.findings, !.i = @ + 1])
                ELSE IF callers[d].pc = "rules"
                THEN [callers[d] EXCEPT !.findings = turn.findings]
                ELSE callers[d]]
    /\ UNCHANGED <<hashSeed, node, facts, result, validation, policy, engine, loadError,
                   calls, cli, host, scan>>

\* Lines 58-75 for the next rule of self._rules: reads the rule, writes the
\* caller's own findings list; an exception ends the call
RuleTurn(c) ==
    /\ callers[c].pc = "rules"
    /\ callers[c].i <= Len(engine._rules)
    /\ LET turn == EvaluateRule(engine._rules[callers[c].i], callers[c].facts,
                                callers[c].fact_map, callers[c].findings)
       IN  callers' = [callers EXCEPT ![c] =
                IF turn.raised # ""
                THEN [@ EXCEPT !.pc = "done", !.result = EvalRaised(turn.raised)]
                ELSE [@ EXCEPT !.findings = turn.findings, !.i = @ + 1]]
    /\ UNCHANGED <<hashSeed, node, facts, result, validation, policy, engine, loadError,
                   calls, cli, host, scan>>

\* Line 77: return EvalResult(findings=findings, warnings=warnings)
Return(c) ==
    /\ callers[c].pc = "rules"
    /\ callers[c].i > Len(engine._rules)
    /\ callers' = [callers EXCEPT ![c] =
            [@ EXCEPT !.pc = "done",
                      !.result = EvalResult(callers[c].findings, callers[c].warnings)]]
    /\ UNCHANGED <<hashSeed, node, facts, result, validation, policy, engine, loadError,
                   calls, cli, host, scan>>

NextConcurrent ==
    \/ Construct
    \/ \E c \in Callers : Call(c)
    \/ \E c \in Callers : Correlate(c)
    \/ \E c \in Callers : RuleTurn(c)
    \/ \E c \in Callers : Return(c)

SpecConcurrent == InitConcurrent /\ [][NextConcurrent]_vars

---------------------------------------------------------------------------
(* One run of main() *)

InitCli ==
    /\ hashSeed \in {0, 1}
    /\ node = PyNone
    /\ facts = <<>>
    /\ result = "pending"
    /\ validation = NotValidated
    /\ policy \in CliPolicies
    /\ engine = NoEngine
    /\ loadError = NoError
    /\ calls = <<>>
    /\ callers = NoCallers
    /\ cli \in {Run(detected, json_output, given) :
                    detected \in BOOLEAN, json_output \in BOOLEAN,
                    given \in {""} \cup DOMAIN _SEVERITY_RANK}
    /\ host = NoHost
    /\ scan = NoScan

\* Lines 41-46: adapter.detect()
CliDetect ==
    /\ cli.pc = "detect"
    /\ cli' = IF cli.detected THEN [cli EXCEPT !.pc = "load"]
              ELSE Exit([cli EXCEPT !.stderr =
                            <<<<"No OpenClaw configuration found.">>,
                              <<"  searched: ", "searched_locations">>,
                              <<"Usage: python -m clawshield <path-to-openclaw-config.yaml>">>>>],
                        "1")
    /\ UNCHANGED <<hashSeed, node, facts, result, validation, policy, engine, loadError,
                   calls, callers, host, scan>>

\* Lines 49-53: engine = PolicyEngine(policy_path), except PolicyLoadError
CliLoadPolicy ==
    /\ cli.pc = "load"
    /\ \E made \in {PolicyEngineInit(policy)} :
           /\ engine' = made.engine
           /\ loadError' = made.error
           /\ cli' = IF made.error.type = "PolicyLoadError"
                     THEN Exit([cli EXCEPT !.stderr = <<<<"error: ">> \o made.error.message>>], "1")
                     ELSE IF made.error.type # "" THEN Unhandled(cli, made.error.type)
                     ELSE [cli EXCEPT !.pc = "collect"]
    /\ UNCHANGED <<hashSeed, node, facts, result, validation, policy, calls, callers, host, scan>>

\* Lines 56-86: the scanners hand over their facts and the docker warnings;
\* without facts the run ends with code 0
CliCollect ==
    /\ cli.pc = "collect"
    /\ \E fs \in CallFactLists, docker_warnings \in DockerWarnings :
        LET collected == [cli EXCEPT !.facts = fs, !.warnings = docker_warnings]
        IN  cli' = IF fs # <<>> THEN [collected EXCEPT !.pc = "evaluate"]
                   ELSE IF cli.json_output
                   THEN Exit([collected EXCEPT !.json = JsonDocument(<<>>, <<>>, <<>>)], "0")
                   ELSE Exit([collected EXCEPT !.stdout =
                                <<<<"No facts collected from configuration.">>>>], "0")
    /\ UNCHANGED <<hashSeed, node, facts, result, validation, policy, engine, loadError,
                   calls, callers, host, scan>>

\* Lines 89-95: result = engine.evaluate(facts); the warnings go to stderr
CliEvaluate ==
    /\ cli.pc = "evaluate"
    /\ \E outcome \in {evaluate(engine._rules, cli.facts)} :
       LET all_warnings == cli.warnings \o outcome.warnings
       IN  cli' = IF outcome.raised # "" THEN Unhandled(cli, outcome.raised)
                  ELSE [cli EXCEPT !.pc = "report",
                                   !.findings = outcome.findings,
                                   !.warnings = all_warnings,
                                   !.stderr = [i \in 1..Len(all_warnings) |->
                                                  <<"warning: ">> \o all_warnings[i]]]
    /\ UNCHANGED <<hashSeed, node, facts, result, validation, policy, engine, loadError,
                   calls, callers, host, scan>>

\* Lines 98-123: the output, then the exit code by the --fail-on threshold
CliReport ==
    /\ cli.pc = "report"
    /\ LET text == AllFindingLines(cli.findings, 1, <<>>)
           printed ==
                IF cli.json_output
                THEN [exc |-> "",
                      run |-> [cli EXCEPT !.json = JsonDocument(cli.warnings, cli.facts, cli.findings)]]
                ELSE IF cli.findings = <<>>
                THEN [exc |-> "",
                      run |-> [cli EXCEPT !.stdout =
                                <<<<"Audit complete. No issues found for the checks performed.">>>>]]
                ELSE [exc |-> text.exc, run |-> [cli EXCEPT !.stdout = text.lines]]
           threshold == _SEVERITY_RANK[cli.fail_on]
           failing == AnyAtOrAbove(cli.findings, 1, threshold)
       IN  cli' = IF printed.exc # "" THEN Unhandled(printed.run, printed.exc)
                  ELSE IF failing = "TypeError" THEN Unhandled(printed.run, "TypeError")
                  ELSE Exit(printed.run, IF failing = "True" THEN "1" ELSE "0")
    /\ UNCHANGED <<hashSeed, node, facts, result, validation, policy, engine, loadError,
                   calls, callers, host, scan>>

NextCli == CliDetect \/ CliLoadPolicy \/ CliCollect \/ CliEvaluate \/ CliReport

SpecCli == InitCli /\ [][NextCli]_vars

---------------------------------------------------------------------------
(* One call of DockerScanner.scan() *)

InitDocker ==
    /\ hashSeed = 0
    /\ node = PyNone
    /\ facts = <<>>
    /\ result = "pending"
    /\ validation = NotValidated
    /\ policy = NoPolicy
    /\ engine = NoEngine
    /\ loadError = NoError
    /\ calls = <<>>
    /\ callers = NoCallers
    /\ cli = NoCli
    /\ host \in DockerHosts
    /\ scan = [pc |-> "ps", ids |-> <<>>, result |-> Scanned(<<>>, <<>>)]

\* return (facts, warnings), or an exception leaves scan
DockerDone(docker_facts, warnings) ==
    [scan EXCEPT !.pc = "done", !.result = Scanned(docker_facts, warnings)]
DockerRaised(exc) ==
    [scan EXCEPT !.pc = "done", !.result = [Scanned(<<>>, <<>>) EXCEPT !.raised = exc]]

\* Lines 20-28: docker ps -q is run and its outcome looked at
DockerPs ==
    /\ scan.pc = "ps"
    /\ LET listing == _get_running_container_ids(host.ps)
       IN  scan' =
            IF listing.raised # "" THEN DockerRaised(listing.raised)
            ELSE IF ~listing.listed
            THEN DockerDone(<<>>, <<<<"Docker: ">> \o listing.error
                                     \o <<"; skipping container inspection">>>>)
            ELSE IF listing.ids = <<>> THEN DockerDone(<<>>, <<>>)
            ELSE [scan EXCEPT !.pc = "inspect", !.ids = listing.ids]
    /\ UNCHANGED <<hashSeed, node, facts, result, validation, policy, engine, loadError,
                   calls, callers, cli, host>>

\* Lines 30-35: docker inspect is run on the ids and its output parsed
DockerInspect ==
    /\ scan.pc = "inspect"
    /\ LET inspection == _inspect_containers(host.inspect)
       IN  scan' =
            IF inspection.raised # "" THEN DockerRaised(inspection.raised)
            ELSE IF ~inspection.inspected
            THEN DockerDone(<<>>, <<<<"Failed to inspect running Docker containers">>>>)
            ELSE DockerDone(parse_inspect_output(inspection.containers), <<>>)
    /\ UNCHANGED <<hashSeed, node, facts, result, validation, policy, engine, loadError,
                   calls, callers, cli, host>>

NextDocker == DockerPs \/ DockerInspect

SpecDocker == InitDocker /\ [][NextDocker]_vars

---------------------------------------------------------------------------
(* One run of main() from line 55 on: the collectors, evaluate, the report *)

InitCollect ==
    /\ hashSeed = 0
    /\ node = PyNone
    /\ facts = <<>>
    /\ result = "pending"
    /\ validation = NotValidated
    /\ policy = CollectPolicy
    /\ engine = PolicyEngineInit(CollectPolicy).engine
    /\ loadError = NoError
    /\ calls = <<>>
    /\ callers = NoCallers
    /\ cli \in {[Run(TRUE, json_output, "") EXCEPT !.pc = "config"] : json_output \in BOOLEAN}
    /\ host \in CollectHosts
    /\ scan = NoScan

\* facts.extend(scanned.facts), or the exception of the scanner leaves main
Extended(scanned, pc) ==
    IF scanned.raised # "" THEN Unhandled(cli, scanned.raised)
    ELSE [cli EXCEPT !.pc = pc, !.facts = @ \o scanned.facts]

\* Lines 58-59: facts = config_scanner.scan(adapter.get_config_paths())
CollectConfig ==
    /\ cli.pc = "config"
    /\ cli' = Extended(ConfigScan(host.config), "secrets")
    /\ UNCHANGED <<hashSeed, node, facts, result, validation, policy, engine, loadError,
                   calls, callers, host, scan>>

\* Lines 61-62: facts.extend(secrets_scanner.scan(adapter.get_config_paths()))
CollectSecrets ==
    /\ cli.pc = "secrets"
    /\ cli' = Extended(SecretsScan(host.config, host.env), "permissions")
    /\ UNCHANGED <<hashSeed, node, facts, result, validation, policy, engine, loadError,
                   calls, callers, host, scan>>

\* Lines 64-65: facts.extend(permissions_scanner.scan(adapter.get_config_paths()))
CollectPermissions ==
    /\ cli.pc = "permissions"
    /\ cli' = Extended(PermissionsScan(host.config, host.env, host.is_posix), "docker")
    /\ UNCHANGED <<hashSeed, node, facts, result, validation, policy, engine, loadError,
                   calls, callers, host, scan>>

\* Lines 67-86: the docker scanner gives facts and warnings; without any fact
\* the run ends with code 0
CollectDocker ==
    /\ cli.pc = "docker"
    /\ \E scanned \in {DockerScannerScan(host.ps, host.inspect)} :
        LET collected == [cli EXCEPT !.facts = @ \o scanned.facts,
                                     !.warnings = @ \o scanned.warnings]
        IN  cli' = IF scanned.raised # "" THEN Unhandled(cli, scanned.raised)
                   ELSE IF collected.facts # <<>> THEN [collected EXCEPT !.pc = "evaluate"]
                   ELSE IF cli.json_output
                   THEN Exit([collected EXCEPT !.json = JsonDocument(<<>>, <<>>, <<>>)], "0")
                   ELSE Exit([collected EXCEPT !.stdout =
                                <<<<"No facts collected from configuration.">>>>], "0")
    /\ UNCHANGED <<hashSeed, node, facts, result, validation, policy, engine, loadError,
                   calls, callers, host, scan>>

NextCollect ==
    \/ CollectConfig
    \/ CollectSecrets
    \/ CollectPermissions
    \/ CollectDocker
    \/ CliEvaluate
    \/ CliReport

SpecCollect == InitCollect /\ [][NextCollect]_vars

---------------------------------------------------------------------------
(* Properties of the policy loader *)

\* The rules of a policy document that has a list of rules
HasRuleList(file) ==
    /\ file.file = "ok"
    /\ IsDict(file.document)
    /\ HasKey(file.document, "rules")
    /\ IsList(Item(file.document, "rules"))
RulesOf(file) == Item(file.document, "rules").items

\* A rule with a validation error: no dict, a required key missing, or a
\* condition that validate_condition does not pass
HasRuleError(rule) ==
    \/ ~IsDict(rule)
    \/ _REQUIRED_RULE_KEYS \ Range(rule.keys) # {}
    \/ validate_condition(Item(rule, "condition")) # [errors |-> <<>>, raised |-> ""]

IsInfix(t, m) == \E k \in 0..(Len(m) - Len(t)) : SubSeq(m, k + 1, k + Len(t)) = t

\* Every error of the rule at index i is part of the message
RuleErrorsIn(i, rule, message) ==
    IF ~IsDict(rule)
    THEN IsInfix(<<"rules[", ToString(i), "]", ": expected dict, got ">>, message)
    ELSE
    LET label == <<"rules[", ToString(i), "]", " (id=",
                   IF HasKey(rule, "id") THEN Str(Item(rule, "id")) ELSE "?", ")">>
    IN  /\ _REQUIRED_RULE_KEYS \ Range(rule.keys) # {} =>
                IsInfix(label \o <<": missing keys: ">>, message)
        /\ HasKey(rule, "condition") =>
                \A e \in Range(validate_condition(Item(rule, "condition")).errors) :
                    IsInfix(label \o <<": ">> \o e, message)

\* C10 as stated: if any rule of the document has a validation error, the
\* construction raises PolicyLoadError, no engine exists afterwards, and the one
\* message holds every error of every rule.
C10_LoadAtomicBatchReported ==
    (/\ Constructed
     /\ HasRuleList(policy)
     /\ \E j \in 1..Len(RulesOf(policy)) : HasRuleError(RulesOf(policy)[j]))
    =>  /\ loadError.type = "PolicyLoadError"
        /\ engine = NoEngine
        /\ \A j \in 1..Len(RulesOf(policy)) :
                RuleErrorsIn(j - 1, RulesOf(policy)[j], loadError.message)

\* The positions of the message at which the text t starts
Occurrences(t, m) == {k \in 0..(Len(m) - Len(t)) : SubSeq(m, k + 1, k + Len(t)) = t}

\* The pieces of the message from position p up to the next closing brace
RECURSIVE UpToBrace(_, _)
UpToBrace(m, p) ==
    IF p > Len(m) \/ m[p] = "}" THEN {} ELSE {m[p]} \cup UpToBrace(m, p + 1)

\* The error of the rule at index i that reports missing keys names the index,
\* the id (or ?) and, between the braces, each missing key and nothing else
MissingKeysNamed(i, rule, message) ==
    LET head == <<"rules[", ToString(i), "]", " (id=",
                  IF HasKey(rule, "id") THEN Str(Item(rule, "id")) ELSE "?", ")",
                  ": missing keys: ", "{">>
        missing == _REQUIRED_RULE_KEYS \ Range(rule.keys)
    IN  \E k \in Occurrences(head, message) :
            UpToBrace(message, k + Len(head) + 1) \ {", "} = {"'" \o key \o "'" : key \in missing}

\* Exactly one error names the index i, and it says the rule is no dict
OneErrorForNonDict(i, message) ==
    /\ Cardinality(Occurrences(<<"rules[", ToString(i), "]">>, message)) = 1
    /\ IsInfix(<<"rules[", ToString(i), "]", ": expected dict, got ">>, message)

\* C12 as stated: for every rule of the document that is a mapping lacking some
\* of the five required keys, the construction fails and the error of that rule
\* names its index, its id (or ? without an id) and every missing key; a rule
\* that is no mapping gets exactly one error, which names its index.
C12_MissingKeysNamedPerRule ==
    (Constructed /\ HasRuleList(policy)) =>
        \A j \in 1..Len(RulesOf(policy)) :
            LET rule == RulesOf(policy)[j]
            IN  /\ (IsDict(rule) /\ _REQUIRED_RULE_KEYS \ Range(rule.keys) # {}) =>
                        /\ engine = NoEngine
                        /\ loadError.type # ""
                        /\ MissingKeysNamed(j - 1, rule, loadError.message)
                /\ ~IsDict(rule) =>
                        /\ engine = NoEngine
                        /\ loadError.type # ""
                        /\ OneErrorForNonDict(j - 1, loadError.message)

\* C13 as stated: the construction on any policy file ends either with a
\* loaded engine and no exception, or with PolicyLoadError and no engine.
C13_LoadedOrPolicyLoadError ==
    Constructed =>
        \/ engine.loaded /\ loadError = NoError
        \/ engine = NoEngine /\ loadError.type = "PolicyLoadError"

---------------------------------------------------------------------------
(* Properties of evaluate *)

\* The last finished call of evaluate: it returned an EvalResult
Returned == calls # <<>> /\ calls[Len(calls)].result.raised = ""
LastFacts == calls[Len(calls)].facts
LastResult == calls[Len(calls)].result

\* The rule's condition holds on the map correlated from the fact list
Holds(rule, fs) ==
    evaluate_condition(Item(rule, "condition"), _build_fact_map(fs).fact_map) = "True"

\* The finding carries the id, title, severity and confidence of the rule
CarriesRule(finding, rule) ==
    /\ finding.rule_id = Item(rule, "id")
    /\ finding.title = Item(rule, "title")
    /\ finding.severity = Item(rule, "severity")
    /\ finding.confidence = Item(rule, "confidence")

\* C11: a document whose rules all pass validation loads into an engine holding
\* exactly those rules in document order; and the findings evaluate returns
\* follow the order of their rules: they can be matched to rules that hold, at
\* strictly increasing positions of the document.
C11_RulesAndFindingsInDocumentOrder ==
    /\ (/\ Constructed
        /\ HasRuleList(policy)
        /\ \A j \in 1..Len(RulesOf(policy)) : ~HasRuleError(RulesOf(policy)[j]))
       =>  /\ engine.loaded
           /\ loadError = NoError
           /\ engine._rules = RulesOf(policy)
    /\ Returned =>
        \E idx \in [1..Len(LastResult.findings) -> 1..Len(RulesOf(policy))] :
            /\ \A k, l \in DOMAIN idx : k < l => idx[k] < idx[l]
            /\ \A k \in DOMAIN idx :
                /\ CarriesRule(LastResult.findings[k], RulesOf(policy)[idx[k]])
                /\ Holds(RulesOf(policy)[idx[k]], LastFacts)

\* Two rules fired, the one of lower severity first in the document and first
\* in the findings
C11_Witness ==
    /\ Returned
    /\ Len(engine._rules) = 2
    /\ Len(LastResult.findings) = 2
    /\ LastResult.findings[1].severity = PyStr("low")
    /\ LastResult.findings[2].severity = PyStr("critical")

\* The keys of a fact list, and the value of the last fact that carries a key
KeysOf(fs) == {fs[i].key : i \in 1..Len(fs)}
LastValue(fs, key) ==
    fs[CHOOSE i \in 1..Len(fs) :
            fs[i].key = key /\ \A j \in (i + 1)..Len(fs) : fs[j].key # key].value
LastValues(fs) == [key \in KeysOf(fs) |-> LastValue(fs, key)]

\* C15: for the fact list of a call, the correlated map has exactly the keys of
\* the list and maps each to the value of the last fact carrying it; and the
\* findings returned are those of the rules that hold on these last values.
C15_LastOccurrenceWins ==
    calls # <<>> =>
        /\ DOMAIN _build_fact_map(LastFacts).fact_map = KeysOf(LastFacts)
        /\ \A key \in KeysOf(LastFacts) :
                _build_fact_map(LastFacts).fact_map[key] = LastValue(LastFacts, key)
        /\ Returned =>
            /\ \A k \in 1..Len(LastResult.findings) :
                \E j \in 1..Len(engine._rules) :
                    /\ CarriesRule(LastResult.findings[k], engine._rules[j])
                    /\ evaluate_condition(Item(engine._rules[j], "condition"),
                                          LastValues(LastFacts)) = "True"
            /\ \A j \in 1..Len(engine._rules) :
                evaluate_condition(Item(engine._rules[j], "condition"),
                                   LastValues(LastFacts)) = "True"
                => \E k \in 1..Len(LastResult.findings) :
                        CarriesRule(LastResult.findings[k], engine._rules[j])

\* Facts [(a, null, s1), (a, 1, s2)]: the rule a == 1 fired on the second value
C15_Witness ==
    /\ Returned
    /\ LastFacts = <<Fact("a", PyNone, "s1"), Fact("a", PyInt("1"), "s2")>>
    /\ engine._rules = <<RuleOf("R1", "low", LeafEq)>>
    /\ Len(LastResult.findings) = 1

\* The sources of the facts carrying a key, in the order of the list
SourcesOf(fs, key) ==
    LET carrying == SelectSeq(fs, LAMBDA f : f.key = key)
    IN  [i \in 1..Len(carrying) |-> carrying[i].source]

\* The warning is about the key
WarnsAbout(warning, key) == IsInfix(<<"fact '", key, "' collected ">>, warning)

\* The warning names the number of occurrences and their sources in order
NamesOccurrences(warning, sources) ==
    /\ IsInfix(<<ToString(Len(sources)), " times ">>, warning)
    /\ IsInfix(<<"(sources: ">> \o Join(", ", [i \in 1..Len(sources) |-> <<sources[i]>>], 1)
               \o <<")">>, warning)
       \/ IsInfix(<<"(sources: ">> \o Join(", ", [i \in 1..Len(sources) |-> <<sources[i]>>], 1)
                  \o <<"), using last value">>, warning)

\* The warnings are one per key carried by more than one fact, none for another
\* key, each naming the occurrences
WarningsAsClaimed(warnings, fs) ==
    /\ \A key \in KeysOf(fs) :
        IF Len(SourcesOf(fs, key)) > 1
        THEN /\ Cardinality({i \in 1..Len(warnings) : WarnsAbout(warnings[i], key)}) = 1
             /\ \A i \in 1..Len(warnings) :
                    WarnsAbout(warnings[i], key) => NamesOccurrences(warnings[i], SourcesOf(fs, key))
        ELSE \A i \in 1..Len(warnings) : ~WarnsAbout(warnings[i], key)
    /\ Len(warnings) = Cardinality({key \in KeysOf(fs) : Len(SourcesOf(fs, key)) > 1})

\* The fact list without the facts that a later fact of the same key overrides
WithoutCollisions(fs) ==
    SelectSeq([i \in 1..Len(fs) |->
                  [fact |-> fs[i], last |-> \A j \in (i + 1)..Len(fs) : fs[j].key # fs[i].key]],
              LAMBDA e : e.last)

\* The rule fields of the findings, in order
RulesFired(findings) ==
    [k \in 1..Len(findings) |->
        <<findings[k].rule_id, findings[k].title, findings[k].severity, findings[k].confidence>>]

\* Some key of the list is carried by more than one fact
HasCollision(fs) == \E key \in KeysOf(fs) : Len(SourcesOf(fs, key)) > 1

\* The outcome of evaluate on the list with only the last fact of each key
WithoutCollisionsResult ==
    evaluate(engine._rules,
             [i \in 1..Len(WithoutCollisions(LastFacts)) |-> WithoutCollisions(LastFacts)[i].fact])

\* C16 as stated: for every fact list with a key that more than one fact
\* carries, evaluate returns an EvalResult; the warnings returned are exactly
\* one per such key, each naming the key, the count and the sources in order,
\* and none for a key that occurs once; and the collisions neither abort the
\* call nor remove findings: the outcome and the findings are those of the list
\* with only the last fact of each key.
C16_OneWarningPerCollidingKey ==
    calls # <<>> =>
        /\ HasCollision(LastFacts) => Returned
        /\ Returned => WarningsAsClaimed(LastResult.warnings, LastFacts)
        /\ WithoutCollisionsResult.raised = LastResult.raised
        /\ RulesFired(WithoutCollisionsResult.findings) = RulesFired(LastResult.findings)

\* The fact keys the leaves of a rule's condition tree refer to
ReferencedKeys(rule) ==
    {Item(leaf, "fact").v : leaf \in {l \in LeavesOf(Item(rule, "condition")) :
                                        HasKey(l, "fact") /\ Item(l, "fact").ty = "str"}}

\* The facts of the list that carry one of the keys, in the order of the list
FactsCarrying(fs, keys) == SelectSeq(fs, LAMBDA f : f.key \in keys)

\* C17: the findings evaluate returns can be matched to rules at increasing
\* positions such that the evidence of each is the subsequence of the input
\* fact list made of the facts whose key the rule's condition tree refers to:
\* in input order, every duplicate included, no fact of another key.
C17_EvidenceIsReferencedFacts ==
    Returned =>
        \E idx \in [1..Len(LastResult.findings) -> 1..Len(engine._rules)] :
            /\ \A k, l \in DOMAIN idx : k < l => idx[k] < idx[l]
            /\ \A k \in DOMAIN idx :
                /\ CarriesRule(LastResult.findings[k], engine._rules[idx[k]])
                /\ LastResult.findings[k].evidence =
                       FactsCarrying(LastFacts, ReferencedKeys(engine._rules[idx[k]]))

\* The rule a == 1 fired on [(a, null, s1), (a, 1, s2)] and shows both facts
C17_Witness ==
    /\ Returned
    /\ \E k \in 1..Len(LastResult.findings) :
        /\ LastResult.findings[k].rule_id = PyStr("R1")
        /\ LastResult.findings[k].evidence =
                <<Fact("a", PyNone, "s1"), Fact("a", PyInt("1"), "s2")>>
    /\ Len(LastFacts) = 2

\* A rule that refers to a only fired on facts of a and b: its evidence leaves
\* the fact of b out
C17_UnreferencedLeftOut ==
    /\ Returned
    /\ LastFacts = <<Fact("b", PyInt("1"), "s1"), Fact("a", PyInt("1"), "s2")>>
    /\ \E k \in 1..Len(LastResult.findings) :
        LastResult.findings[k].evidence = <<Fact("a", PyInt("1"), "s2")>>

\* C18 as stated: after a call of evaluate, the findings are one per loaded
\* rule whose condition is true on the correlated fact map, and none else: they
\* match, in order, exactly the positions of the rules that hold (two rules with
\* one id each have their own finding), and each carries the id, title,
\* severity and confidence of its rule.
C18_FindingIffConditionHolds ==
    calls # <<>> =>
        \E idx \in [1..Len(LastResult.findings) -> 1..Len(engine._rules)] :
            /\ \A k, l \in DOMAIN idx : k < l => idx[k] < idx[l]
            /\ \A k \in DOMAIN idx : CarriesRule(LastResult.findings[k], engine._rules[idx[k]])
            /\ {idx[k] : k \in DOMAIN idx}
                    = {j \in 1..Len(engine._rules) : Holds(engine._rules[j], LastFacts)}

C20_ConcurrentAsAlone ==
    /\ engine.loaded => engine._rules = RulesOf(policy)
    /\ \A c \in DOMAIN callers :
        callers[c].pc = "done" => callers[c].result = evaluate(engine._rules, callers[c].facts)

\* Both callers were inside evaluate at once, on different fact lists, and both
\* have returned findings
C20_Witness ==
    /\ callers # NoCallers
    /\ callers["c1"].pc = "done" /\ callers["c2"].pc = "done"
    /\ callers["c1"].facts # callers["c2"].facts
    /\ callers["c1"].result.findings # <<>>
    /\ callers["c2"].result.findings # <<>>
    /\ callers["c2"].result.warnings # <<>>

\* The entries a rule declares under actions.recommended or actions.autofix
DeclaredEntries(rule, kind) ==
    IF /\ HasKey(rule, "actions")
       /\ IsDict(Item(rule, "actions"))
       /\ HasKey(Item(rule, "actions"), kind)
       /\ IsList(Item(Item(rule, "actions"), kind))
    THEN Item(Item(rule, "actions"), kind).items
    ELSE <<>>

\* The finding names the ids of the rule's recommended entries in declared
\* order and tells whether the rule declares an autofix entry
ActionsAsDeclared(finding, rule) ==
    LET entries == DeclaredEntries(rule, "recommended")
    IN  /\ finding.recommended_actions = [i \in 1..Len(entries) |-> Item(entries[i], "id")]
        /\ finding.autofix_available <=> (Len(DeclaredEntries(rule, "autofix")) > 0)

\* C21: the findings evaluate returns can be matched to rules at increasing
\* positions such that each finding's recommended_actions is the list of ids of
\* the rule's actions.recommended entries in declared order (empty when the
\* rule declares no actions or no recommended entries) and autofix_available is
\* true iff the rule declares at least one actions.autofix entry.
C21_ActionsAsDeclared ==
    Returned =>
        \E idx \in [1..Len(LastResult.findings) -> 1..Len(engine._rules)] :
            /\ \A k, l \in DOMAIN idx : k < l => idx[k] < idx[l]
            /\ \A k \in DOMAIN idx :
                /\ CarriesRule(LastResult.findings[k], engine._rules[idx[k]])
                /\ ActionsAsDeclared(LastResult.findings[k], engine._rules[idx[k]])

\* A rule with two recommended entries and no autofix entry fired, then a rule
\* without actions
C21_Witness ==
    /\ Returned
    /\ Len(LastResult.findings) = 2
    /\ LastResult.findings[1].recommended_actions = <<PyStr("fix2"), PyStr("fix1")>>
    /\ ~LastResult.findings[1].autofix_available
    /\ ~HasKey(engine._rules[2], "actions")
    /\ LastResult.findings[2].recommended_actions = <<>>
    /\ ~LastResult.findings[2].autofix_available

\* A rule with an autofix entry and an empty list of recommended ones fired
C21_AutofixOnly ==
    /\ Returned
    /\ \E k \in 1..Len(LastResult.findings) :
        /\ LastResult.findings[k].autofix_available
        /\ LastResult.findings[k].recommended_actions = <<>>

---------------------------------------------------------------------------
(* Properties of the command line *)

\* Some line of the output holds the piece of text
Says(lines, piece) == \E i \in 1..Len(lines) : piece \in Range(lines[i])

\* C14 as stated: when a configuration is found and the policy path does not
\* exist, main returns exit code 1 and stderr holds a "policy file not found"
\* error; no exception leaves main.
C14_MissingPolicyExitsWithMessage ==
    (cli.pc = "exit" /\ cli.detected /\ policy.file = "missing") =>
        /\ cli.raised = ""
        /\ cli.exit = "1"
        /\ Says(cli.stderr, "policy file not found")

\* The order of the levels, and a severity that is at or above a level in it
SeverityOrder == <<"low", "medium", "high", "critical">>
Level(name) == CHOOSE i \in 1..Len(SeverityOrder) : SeverityOrder[i] = name
AtOrAbove(severity, level) ==
    /\ severity.ty = "str"
    /\ severity.v \in Range(SeverityOrder)
    /\ Level(severity.v) >= Level(level)
SomeAtOrAbove(findings, level) ==
    \E k \in 1..Len(findings) : AtOrAbove(findings[k].severity, level)

\* main has got findings from evaluate and has ended
FindingsProduced ==
    /\ cli.pc = "exit"
    /\ engine.loaded
    /\ cli.facts # <<>>
    /\ evaluate(engine._rules, cli.facts).raised = ""

\* C23 as stated: once evaluate has returned findings, main returns the exit
\* code 1 if some finding has a severity at or above the --fail-on level in the
\* order low < medium < high < critical and 0 otherwise, the level being
\* critical without the option; so with every lower level the code is 1 too.
C23_ExitCodeByThreshold ==
    FindingsProduced =>
        /\ cli.raised = ""
        /\ cli.exit = IF SomeAtOrAbove(cli.findings, cli.fail_on) THEN "1" ELSE "0"
        /\ cli.given = "" => cli.fail_on = "critical"
        /\ cli.exit = "1" =>
                \A lower \in Range(SeverityOrder) :
                    Level(lower) <= Level(cli.fail_on) =>
                        AnyAtOrAbove(cli.findings, 1, _SEVERITY_RANK[lower]) = "True"

\* Every finding of the run has one of the four levels as its severity
SeveritiesRanked ==
    \A k \in 1..Len(cli.findings) : AtOrAbove(cli.findings[k].severity, "low")

\* The same for the runs whose findings all have one of the four levels
C23_ExitCodeByThresholdOfRanked ==
    SeveritiesRanked => C23_ExitCodeByThreshold

\* A run without --fail-on that ends with code 0 on findings up to high, and
\* one with --fail-on medium that ends with code 1 on a finding of that level
C23_DefaultIsCritical ==
    /\ FindingsProduced
    /\ cli.given = "" /\ cli.exit = "0"
    /\ SomeAtOrAbove(cli.findings, "high")
C23_AtThreshold ==
    /\ FindingsProduced
    /\ cli.given = "medium" /\ cli.exit = "1"
    /\ SomeAtOrAbove(cli.findings, "medium") /\ ~SomeAtOrAbove(cli.findings, "high")

---------------------------------------------------------------------------
(* Properties of the docker scanner *)

\* What the machine does to the two commands
ListingFailed == host.ps.raised # "" \/ host.ps.returncode # 0
NothingRunning == ~ListingFailed /\ \A i \in 1..Len(host.ps.stdout) : host.ps.stdout[i] = ""
InspectionFailed ==
    \/ host.inspect.raised # ""
    \/ host.inspect.returncode # 0
    \/ host.inspect.json # "list"

\* The words by which a warning names the reason of a failed listing
ReasonOf(ps) ==
    CASE ps.raised = "FileNotFoundError" -> "docker binary not found"
      [] ps.raised = "TimeoutExpired" -> "docker command timed out"
      [] ps.raised # "" -> "OS error: "
      [] OTHER -> "docker ps failed ("

ScanDone == scan.pc = "done"

\* C24: DockerScanner.scan never raises and ends in one of four ways: the
\* listing failed (missing binary, non-zero exit, timeout, OS error): no facts
\* and one warning that names the reason; nothing is running: no facts, no
\* warning; the inspection failed: no facts and one warning; otherwise the
\* facts parsed from the inspected containers and no warning.  So facts are
\* returned only when both the listing and the inspection succeeded.
C24_ScanFourOutcomes ==
    ScanDone =>
        /\ scan.result.raised = ""
        /\ CASE ListingFailed ->
                    /\ scan.result.facts = <<>>
                    /\ Len(scan.result.warnings) = 1
                    /\ ReasonOf(host.ps) \in Range(scan.result.warnings[1])
              [] NothingRunning ->
                    scan.result.facts = <<>> /\ scan.result.warnings = <<>>
              [] InspectionFailed ->
                    /\ scan.result.facts = <<>>
                    /\ Len(scan.result.warnings) = 1
                    /\ scan.result.warnings[1] # <<>>
              [] OTHER ->
                    /\ scan.result.facts = parse_inspect_output(host.inspect.containers)
                    /\ scan.result.warnings = <<>>
        /\ scan.result.facts # <<>> => (~ListingFailed /\ ~InspectionFailed)

\* docker ps listed two containers between empty lines, docker inspect timed
\* out: no facts and the one warning of a failed inspection
C24_Witness ==
    /\ ScanDone
    /\ Len(scan.ids) = 2 /\ Len(host.ps.stdout) = 3
    /\ host.inspect.raised = "TimeoutExpired"
    /\ scan.result.facts = <<>>
    /\ scan.result.warnings = <<<<"Failed to inspect running Docker containers">>>>

\* The other three ways: the daemon cannot be reached, nothing is running,
\* facts come back
C24_ListingFailed ==
    /\ ScanDone /\ host.ps.returncode = 1 /\ host.ps.stderr # ""
    /\ host.ps.stderr \in Range(scan.result.warnings[1])
C24_NothingRunning ==
    ScanDone /\ NothingRunning /\ scan.result = Scanned(<<>>, <<>>)
C24_FactsReturned ==
    ScanDone /\ Len(scan.result.facts) = 2 /\ scan.result.warnings = <<>>

\* The user a container is run by ("" without one), the part of it before the
\* colon, and whether that is root
UserOf(container) ==
    IF /\ HasKey(container, "Config")
       /\ HasKey(Item(container, "Config"), "User")
       /\ Item(Item(container, "Config"), "User").ty = "str"
    THEN Item(Item(container, "Config"), "User").v
    ELSE <<>>
BeforeColon(user) ==
    IF \E i \in 1..Len(user) : user[i] = ":"
    THEN SubSeq(user, 1, (CHOOSE i \in 1..Len(user) :
                            user[i] = ":" /\ \A j \in 1..(i - 1) : user[j] # ":") - 1)
    ELSE user
AsRoot(container) ==
    \/ UserOf(container) = <<>>
    \/ UserOf(container) = <<"r", "o", "o", "t">>
    \/ BeforeColon(UserOf(container)) = <<"0">>
Privileged(container) ==
    /\ HasKey(container, "HostConfig")
    /\ HasKey(Item(container, "HostConfig"), "Privileged")
    /\ Item(Item(container, "HostConfig"), "Privileged") = PyBool(TRUE)

\* The source shows the names in order, five at most, then the number of the
\* names left out
ShowsNames(source, names) ==
    LET shown == SubSeq(names, 1, IF Len(names) > 5 THEN 5 ELSE Len(names))
    IN  source = <<"docker_inspect:">> \o Join(",", shown, 1)
                    \o (IF Len(names) > 5
                        THEN <<" (+", ToString(Len(names) - 5), " more)">> ELSE <<>>)

\* The source names the offending containers, all containers if none offends
NamesOffending(source, containers, offending) ==
    LET named == IF offending # <<>> THEN offending ELSE containers
    IN  ShowsNames(source, [i \in 1..Len(named) |-> ContainerName(named[i])])

\* docker inspect gave a list of containers and scan handed it to
\* parse_inspect_output
Parsed == ScanDone /\ ~ListingFailed /\ ~NothingRunning /\ ~InspectionFailed

\* C25: for a non-empty list of inspected containers parse_inspect_output
\* returns two facts, docker.user then docker.privileged: docker.user is root
\* iff some container runs as root (no user, root, or UID 0 before the colon),
\* else non-root; docker.privileged is true iff some container is privileged;
\* each source names the offending containers if there are any, else all, five
\* names at most and then the count of the rest.  For an empty list there are
\* no facts.
C25_DockerFactsWorstCase ==
    Parsed =>
        LET containers == host.inspect.containers
            docker_facts == scan.result.facts
        IN  IF containers = <<>> THEN docker_facts = <<>>
            ELSE /\ Len(docker_facts) = 2
                 /\ docker_facts[1].key = "docker.user"
                 /\ docker_facts[2].key = "docker.privileged"
                 /\ docker_facts[1].value =
                        IF \E i \in 1..Len(containers) : AsRoot(containers[i])
                        THEN PyStr("root") ELSE PyStr("non-root")
                 /\ docker_facts[2].value =
                        PyBool(\E i \in 1..Len(containers) : Privileged(containers[i]))
                 /\ NamesOffending(docker_facts[1].source, containers,
                                   SelectSeq(containers, AsRoot))
                 /\ NamesOffending(docker_facts[2].source, containers,
                                   SelectSeq(containers, Privileged))

\* Six containers, the fourth alone with UID 0, the others privileged: root by
\* that one, named alone; privileged, the five others named
C25_OffendersNamed ==
    /\ Parsed
    /\ Len(host.inspect.containers) = 6
    /\ scan.result.facts[1].value = PyStr("root")
    /\ scan.result.facts[1].source = <<"docker_inspect:", "c", "4">>
    /\ scan.result.facts[2].value = PyBool(TRUE)
    /\ Len(scan.result.facts[2].source) = 1 + 5 * 2 + 4

\* Six containers with UID 0, none privileged: root, five of the six names
\* and one more; not privileged, with the same names
C25_Witness ==
    /\ Parsed
    /\ Len(host.inspect.containers) = 6
    /\ \A i \in 1..6 : UserOf(host.inspect.containers[i]) = <<"0", ":", "0">>
    /\ scan.result.facts[1].value = PyStr("root")
    /\ scan.result.facts[2].value = PyBool(FALSE)
    /\ scan.result.facts[1].source = scan.result.facts[2].source
    /\ <<" (+", "1", " more)">> = SubSeq(scan.result.facts[2].source,
                                          Len(scan.result.facts[2].source) - 2,
                                          Len(scan.result.facts[2].source))

\* No container of the list runs as root; and the empty list
C25_NonRoot ==
    /\ Parsed
    /\ Len(host.inspect.containers) = 2
    /\ scan.result.facts[1].value = PyStr("non-root")
    /\ scan.result.facts[2].value = PyBool(TRUE)
C25_EmptyList ==
    Parsed /\ host.inspect.containers = <<>> /\ scan.result.facts = <<>>

---------------------------------------------------------------------------
(* Properties of the collectors *)

\* The configuration cannot be opened or decoded, or its text does not parse
ConfigUnreadable == host.config.read # ""
ConfigUnparsable ==
    /\ host.config.read = ""
    /\ IF host.config.suffix = ".json" THEN ~host.config.json.ok ELSE ~host.config.yaml.ok

\* The collectors have all run
CollectionOver == cli.pc \in {"evaluate", "report", "exit"} /\ cli.raised = ""

\* The facts that come from a file, the warnings that name it
FactsFrom(file) ==
    SelectSeq(cli.facts, LAMBDA f : Len(f.source) >= 2 /\ f.source[2] = file.path)
WarnedAbout(file) == \E i \in 1..Len(cli.warnings) : file.path \in Range(cli.warnings[i])

\* C26: a collector whose input cannot be read or parsed gives no fact for
\* that input and a warning about it that is among the warnings of the run,
\* and no collector raises an exception that leaves main
C26_CollectorsDegradeWithWarning ==
    /\ cli.raised = ""
    /\ (CollectionOver /\ (ConfigUnreadable \/ ConfigUnparsable)) =>
            /\ FactsFrom(host.config) = <<>>
            /\ WarnedAbout(host.config)

\* What the configuration reader does do: a file that cannot be opened or a
\* text that does not parse gives no fact, and the run goes on
C26_FailedConfigGivesNoConfigFacts ==
    (cli.pc # "config" /\ (IsOSError(host.config.read) \/ ConfigUnparsable)) =>
        /\ cli.raised = ""
        /\ \A i \in 1..Len(cli.facts) : cli.facts[i].source[1] # "openclaw_config:"

\* The warnings of the collectors are those of the docker scanner
C26_OnlyDockerWarns ==
    CollectionOver => \A i \in 1..Len(cli.warnings) :
        cli.warnings[i][1] \in {"Docker: ", "Failed to inspect running Docker containers"}

\* The reader raises on a document that is no mapping
C26_ReaderRaises ==
    /\ cli.pc = "exit"
    /\ cli.raised = "TypeError"
    /\ host.config.json = ParsesTo(PyInt("5"))
    /\ cli.facts = <<>>

---------------------------------------------------------------------------
(* Properties of the loaded rules *)

\* The levels of the policy schema
SeverityLevels == {"low", "medium", "high", "critical"}
ConfidenceLevels == {"low", "medium", "high"}
IsLevel(x, levels) == x.ty = "str" /\ x.v \in levels

\* C27: after a successful load every rule of the engine has one of the four
\* severities and one of the three confidences, and so the severity of every
\* finding of the run has a rank in _SEVERITY_RANK
C27_LoadedSeverityAndConfidenceInEnum ==
    /\ engine.loaded =>
            \A i \in 1..Len(engine._rules) :
                /\ IsLevel(Item(engine._rules[i], "severity"), SeverityLevels)
                /\ IsLevel(Item(engine._rules[i], "confidence"), ConfidenceLevels)
    /\ \A k \in 1..Len(cli.findings) :
            IsLevel(cli.findings[k].severity, DOMAIN _SEVERITY_RANK)

\* What the loader does see to: every loaded rule has the five keys
C27_LoadedRulesHaveTheKeys ==
    engine.loaded =>
        \A i \in 1..Len(engine._rules) :
            /\ IsDict(engine._rules[i])
            /\ {"id", "title", "severity", "confidence", "condition"}
                    \subseteq Range(engine._rules[i].keys)

\* A loaded rule whose severity is no level, and its finding
C27_UnrankedFinding ==
    /\ engine.loaded
    /\ cli.pc = "exit"
    /\ \E k \in 1..Len(cli.findings) : cli.findings[k].severity = PyStr("urgent")

\* C28: for every rule set that PolicyEngine loaded and every fact list,
\* evaluate returns an EvalResult and raises nothing
C28_EvaluateNeverRaisesOnLoaded ==
    engine.loaded => \A i \in 1..Len(calls) : calls[i].result.raised = ""

\* When evaluate raises on the loaded rules of these policies it is on a
\* condition that the validator let through although evaluate_condition raises
\* on it, or on actions that are no mapping
C28_RaisesByConditionOrActions ==
    (engine.loaded /\ calls # <<>> /\ ~Returned) =>
        \E j \in 1..Len(engine._rules) :
            LET rule == engine._rules[j]
            IN  \/ Holds(rule, LastFacts) = FALSE
                   /\ evaluate_condition(Item(rule, "condition"),
                                          _build_fact_map(LastFacts).fact_map)
                        \notin {"True", "False"}
                \/ HasKey(rule, "actions") /\ ~IsDict(Item(rule, "actions"))

\* A loaded rule with `actions: null` whose condition holds: evaluate raises
C28_ActionsNullRaises ==
    /\ engine.loaded
    /\ Len(engine._rules) = 1
    /\ HasKey(engine._rules[1], "actions") /\ Item(engine._rules[1], "actions") = PyNone
    /\ calls # <<>> /\ LastResult.raised = "AttributeError"

---------------------------------------------------------------------------
(* Properties of the three walks of a condition tree *)

\* What each walk takes a dict node for: _validate_node (lines 24, 31, 38),
\* evaluate_condition (lines 56, 58, 61) and _extract_fact_keys (lines 97-104)
TakenByValidator(n) ==
    IF HasKey(n, "all") THEN "all" ELSE IF HasKey(n, "any") THEN "any" ELSE "leaf"
TakenByEvaluator(n) ==
    IF KeyIn("all", n) = "True" THEN "all"
    ELSE IF KeyIn("any", n) = "True" THEN "any" ELSE "leaf"
TakenByExtractor(n) ==
    IF KeyIn("all", n) = "True" THEN "all"
    ELSE IF KeyIn("any", n) = "True" THEN "any"
    ELSE IF KeyIn("fact", n) = "True" THEN "leaf" ELSE "nothing"

\* The three walks take every node of the tree for the same kind
SameClassification(tree) ==
    \A pos \in Positions(tree) :
        LET n == NodeAt(tree, pos)
        IN  /\ IsDict(n)
            /\ TakenByEvaluator(n) = TakenByValidator(n)
            /\ TakenByExtractor(n) = TakenByValidator(n)

\* The fact keys of the leaves of the tree
LeafFactKeys(tree) == {Item(l, "fact") : l \in {m \in LeavesOf(tree) : HasKey(m, "fact")}}

\* _extract_fact_keys returns exactly the fact keys of the leaves
ExtractsLeafKeys(tree) ==
    /\ _extract_fact_keys(tree).exc = ""
    /\ _extract_fact_keys(tree).keys = LeafFactKeys(tree)

\* Two fact maps have the same entries for the keys
AgreeOn(fmap, other, keys) ==
    \A k \in keys :
        k.ty = "str" =>
            /\ (k.v \in DOMAIN fmap) = (k.v \in DOMAIN other)
            /\ k.v \in DOMAIN fmap => fmap[k.v] = other[k.v]

\* evaluate_condition gives the same on every fact map with the same entries
\* for the keys
DependsOnlyOn(tree, fmap, keys) ==
    \A other \in FactMaps :
        AgreeOn(fmap, other, keys) =>
            evaluate_condition(tree, other) = evaluate_condition(tree, fmap)

\* C29: on a validated tree the validator, the evaluator and the
\* key-collecting walk take every node for the same kind (all before any
\* before leaf), _extract_fact_keys returns exactly the fact keys of the leaves
\* that evaluate_condition can consult, and the result of evaluate_condition
\* depends only on the entries of the fact map for those keys
C29_WalksClassifyAlike ==
    Validated =>
        /\ SameClassification(node)
        /\ ExtractsLeafKeys(node)
        /\ DependsOnlyOn(node, facts, LeafFactKeys(node))

\* The same for the validated trees whose leaves all have a str for `fact`
C29_WalksClassifyAlikeOnStrFacts ==
    (Validated /\ \A l \in LeavesOf(node) : Item(l, "fact").ty = "str") =>
        /\ SameClassification(node)
        /\ ExtractsLeafKeys(node)
        /\ DependsOnlyOn(node, facts, LeafFactKeys(node))

\* A validated node with an `all` and an `any` key: the walks go by `all`
C29_SeveralKeys ==
    /\ Validated /\ Evaluated
    /\ HasKey(node, "all") /\ HasKey(node, "any")
    /\ _extract_fact_keys(node).keys = {PyStr("a")}
    /\ result = "True"

\* A validated leaf whose `fact` is a list: the key-collecting walk raises
C29_UnhashableFact ==
    /\ Validated
    /\ LeavesOf(node) = {node}
    /\ Item(node, "fact").ty = "list"
    /\ _extract_fact_keys(node).exc = "TypeError"

---------------------------------------------------------------------------
(* Properties of evaluate as a reader of what it is given *)

====
